---------------------------- MODULE Spec2Model ----------------------------
(***************************************************************************)
(* A model of koto: the AST builder of the parser (parser.rs) and the host *)
(* API of the interpreter (lib.rs).                                        *)
(*                                                                         *)
(* Text is modelled as a sequence of one-character strings, so that the    *)
(* rendering of an error message can be inspected character by character.  *)
(***************************************************************************)
EXTENDS Integers, Sequences, FiniteSets, TLC

VARIABLES
    \* ---- KotoParser::parse applied to drawn grammar outcomes (ParserSpec) ----
    pest_result,    \* what the grammar made of the source text: Err or the pairs
    parse_result,   \* NoResult before the call, then the Result of parse
    \* ---- format_runtime_error applied to drawn inputs (FormatSpec) ----
    fmt_script,     \* self.script at the time of the rendering
    fmt_message,    \* message of the RuntimeError
    fmt_start,      \* start_pos of the RuntimeError
    fmt_end,        \* end_pos of the RuntimeError
    fmt_checked,    \* TRUE: the build checks integer overflow (debug)
    fmt_out,        \* NotCalled before the call, then Panic or the text
    \* ---- a Koto instance driven by its host (Spec) ----
    script,         \* Koto.script
    ast,            \* Koto.ast
    env,            \* the `env` map of the runtime's global map, in key order
    global_main,    \* what `main` is bound to in the runtime
    call_stack,     \* the runtime's call stack: one frame per open invocation
    activations,    \* function invocations the evaluator has not returned from
    signal,         \* what the evaluator is propagating: none, a control flow
                    \* signal or an error
    pc,             \* the host call in progress, "idle" between calls
    result,         \* what the last host call returned
    trace,          \* history of the host call in progress or last returned
    overflow_checks, \* TRUE: the build checks integer overflow (debug)
    \* ---- a Repl driven by the keys of its user (ReplSpec) ----
    input,            \* Repl.input: the line being edited
    continued_lines,  \* Repl.continued_lines: the lines of a pending continuation
    input_history,    \* Repl.input_history
    history_position, \* Repl.history_position
    cursor,           \* Repl.cursor
    entered,          \* what the last key press did: the texts compiled, the
                      \* chunks run and what was printed
    \* ---- Help::get_help applied to drawn maps and searches (HelpSpec) ----
    help_map,         \* Help.map: the entries in insertion order
    help_search,      \* the search handed to get_help
    help_out          \* NotCalled before the call, then the text returned

parser_vars == <<pest_result, parse_result>>
fmt_vars == <<fmt_script, fmt_message, fmt_start, fmt_end, fmt_checked, fmt_out>>
koto_vars == <<script, ast, env, global_main, call_stack, activations, signal, pc,
               result, trace, overflow_checks>>
repl_vars == <<input, continued_lines, input_history, history_position, cursor,
               entered>>
help_vars == <<help_map, help_search, help_out>>

(***************************************************************************)
(* Bounds                                                                  *)
(***************************************************************************)
\* largest column of a drawn position
MaxCol == 3
\* largest line of a drawn position
MaxLine == 11
\* most operators of a drawn operation
MaxOps == 3
\* most targets of a drawn multiple assignment
MaxTargets == 3
\* most else-if branches of a drawn if block
MaxElseIf == 2
\* most top-level expressions of a drawn program
MaxTopLevel == 3
\* deepest nesting of function invocations the evaluator is taken to
MaxCallDepth == 2
\* most sub-expressions of a drawn debug expression
MaxDebug == 3
\* most arguments of a drawn function literal
MaxArgs == 2
\* longest line the user edits
MaxInput == 13
\* most lines of a continuation the user leaves pending
MaxContinued == 2
\* most lines the history is let to grow to
MaxHistory == 2
\* most entries of a drawn help map
MaxEntries == 3
\* longest line the user types a character on
MaxEdit == 2
\* longest drawn search
MaxSearch == 3

(***************************************************************************)
(* Text helpers                                                            *)
(***************************************************************************)
NL == "\n"
CR == "\r"

\* " ".repeat(n), "^".repeat(n)
RECURSIVE repeat(_, _)
repeat(c, n) == IF n <= 0 THEN <<>> ELSE <<c>> \o repeat(c, n - 1)

DigitChar(d) ==
    CASE d = 0 -> "0" [] d = 1 -> "1" [] d = 2 -> "2" [] d = 3 -> "3"
      [] d = 4 -> "4" [] d = 5 -> "5" [] d = 6 -> "6" [] d = 7 -> "7"
      [] d = 8 -> "8" [] d = 9 -> "9"

\* usize::to_string
RECURSIVE to_string(_)
to_string(n) ==
    IF n < 10 THEN <<DigitChar(n)>>
    ELSE to_string(n \div 10) \o <<DigitChar(n % 10)>>

\* str::lines: split at "\n", a final line needs no terminator, and a "\r"
\* before the "\n" (or at the end of the final line) is dropped
StripCR(line) ==
    IF Len(line) > 0 /\ line[Len(line)] = CR
    THEN SubSeq(line, 1, Len(line) - 1) ELSE line

RECURSIVE LinesFrom(_, _, _)
LinesFrom(s, i, cur) ==
    IF i > Len(s) THEN (IF cur = <<>> THEN <<>> ELSE <<StripCR(cur)>>)
    ELSE IF s[i] = NL THEN <<StripCR(cur)>> \o LinesFrom(s, i + 1, <<>>)
    ELSE LinesFrom(s, i + 1, Append(cur, s[i]))

lines(s) == LinesFrom(s, 1, <<>>)

\* Iterator::skip(n).take(k) on a sequence
skip_take(seq, n, k) ==
    IF n >= Len(seq) \/ k <= 0 THEN <<>>
    ELSE SubSeq(seq, n + 1, IF n + k > Len(seq) THEN Len(seq) ELSE n + k)

\* format!("{:>width$}", s): s right-aligned in width characters
pad_left(s, width) == repeat(" ", width - Len(s)) \o s

RECURSIVE concat(_)
concat(seqs) == IF seqs = <<>> THEN <<>> ELSE Head(seqs) \o concat(Tail(seqs))

MaxLenOf(seqs) ==
    LET lens == {Len(seqs[i]) : i \in 1..Len(seqs)}
    IN CHOOSE m \in lens : \A l \in lens : l <= m

(***************************************************************************)
(* Koto::format_runtime_error                                              *)
(***************************************************************************)
\* the outcome of a rendering: the process panics, or the text
Panic == [tag |-> "Panic"]
Text(t) == [tag |-> "Text", text |-> t]
NotCalled == [tag |-> "none"]

Position(l, c) == [line |-> l, column |-> c]

\* single_line_excerpt with the carets starting one column to the left
single_line_excerpt_shifted(number, source_line, number_width, padding, start_pos, end_pos) ==
    <<" ">> \o pad_left(number, number_width) \o <<" ", "|", " ">> \o source_line
        \o <<NL>> \o padding \o <<"|">> \o repeat(" ", start_pos.column - 1)
        \o repeat("^", end_pos.column - start_pos.column)

\* lib.rs 167-184: the numbered source line, then the caret line
single_line_excerpt(number, source_line, number_width, padding, start_pos, end_pos) ==
    <<" ">> \o pad_left(number, number_width) \o <<" ", "|", " ">> \o source_line
        \o <<NL>> \o padding \o <<"|">> \o repeat(" ", start_pos.column)
        \o repeat("^", end_pos.column - start_pos.column)

\* lib.rs 186-197: one entry per (excerpt line, line number) of the zip;
\* the format string of an entry has no line terminator
multi_line_excerpt(excerpt_lines, line_numbers, number_width) ==
    LET n == IF Len(excerpt_lines) < Len(line_numbers)
             THEN Len(excerpt_lines) ELSE Len(line_numbers)
    IN concat([i \in 1..n |->
                 <<" ">> \o pad_left(line_numbers[i], number_width)
                     \o <<" ", "|", " ">> \o excerpt_lines[i]])

RuntimeErrorHeader ==
    <<"R","u","n","t","i","m","e"," ","e","r","r","o","r",":"," ">>

\* checked: the build checks integer overflow. Without the check
\* start_pos.line - 1 wraps to usize::MAX for line 0, and skipping that many
\* lines skips them all.
format_runtime_error(self_script, message, start_pos, end_pos, checked) ==
    IF start_pos.line = 0 /\ checked THEN Panic      \* start_pos.line - 1
    ELSE IF end_pos.line < start_pos.line THEN Panic \* end - start, or max of no numbers
    ELSE
      LET excerpt_lines ==
              IF start_pos.line = 0 THEN <<>>
              ELSE skip_take(lines(self_script), start_pos.line - 1,
                             end_pos.line - start_pos.line + 1)
          line_numbers ==
              [i \in 1..(end_pos.line - start_pos.line + 1) |->
                  to_string(start_pos.line + i - 1)]
          number_width == MaxLenOf(line_numbers)
          padding == repeat(" ", number_width + 2)
      IN IF Len(excerpt_lines) = 1 /\ end_pos.column < start_pos.column
         THEN Panic                                  \* end.column - start.column
         ELSE
           LET excerpt ==
                 IF Len(excerpt_lines) = 1
                 THEN single_line_excerpt(line_numbers[1], excerpt_lines[1],
                                          number_width, padding, start_pos, end_pos)
                 ELSE multi_line_excerpt(excerpt_lines, line_numbers, number_width)
           IN Text(RuntimeErrorHeader \o message \o <<NL>>
                     \o <<" ", "-", "-", ">", " ">> \o to_string(start_pos.line)
                     \o <<":">> \o to_string(start_pos.column) \o <<NL>>
                     \o padding \o <<"|", NL>> \o excerpt)

(***************************************************************************)
(* pest pairs: the parse tree handed to build_ast. A pair has a rule, the  *)
(* text it matched (kept for tokens), a span and its inner pairs.          *)
(***************************************************************************)
Span(sl, sc, el, ec) == [start |-> Position(sl, sc), end |-> Position(el, ec)]

\* a token on one line: `str` starting at column col
Tok(rule, str, line, col) ==
    [rule |-> rule, str |-> str, span |-> Span(line, col, line, col + Len(str)),
     inner |-> <<>>]

\* a pair spanning its (non-empty) inner pairs
Pair(rule, inner) ==
    [rule |-> rule, str |-> <<>>,
     span |-> [start |-> inner[1].span.start, end |-> inner[Len(inner)].span.end],
     inner |-> inner]

\* a pair with an explicit span
PairAt(rule, inner, span) == [rule |-> rule, str |-> <<>>, span |-> span, inner |-> inner]

(***************************************************************************)
(* AST values                                                              *)
(***************************************************************************)
None == [tag |-> "None"]
Some(v) == [tag |-> "Some", value |-> v]

AstNode_new(span, node) ==
    [node |-> node, start_pos |-> span.start, end_pos |-> span.end]

\* AssignTarget::to_node
to_node(target) ==
    IF target.tag = "Id" THEN [tag |-> "Id", id |-> target.id]
    ELSE [tag |-> "Lookup", lookup |-> target.lookup]

\* str::parse::<f64> on the digit strings of the model
RECURSIVE parse_number(_)
parse_number(str) ==
    IF str = <<>> THEN 0
    ELSE LET d == CHOOSE k \in 0..9 : DigitChar(k) = str[Len(str)]
         IN 10 * parse_number(SubSeq(str, 1, Len(str) - 1)) + d

\* str::parse::<bool>
parse_bool(str) == str = <<"t", "r", "u", "e">>

(***************************************************************************)
(* KotoParser::new: the operator table of the precedence climber           *)
(***************************************************************************)
\* the table with the additive and the multiplicative tier exchanged
OperatorTableSwapped ==
    << {"and", "or"},
       {"equal", "not_equal"},
       {"greater", "greater_or_equal", "less", "less_or_equal"},
       {"multiply", "divide", "modulo"},
       {"add", "subtract"} >>

\* parser.rs 20-31: one entry per precedence level, lowest first
OperatorTable ==
    << {"and", "or"},
       {"equal", "not_equal"},
       {"greater", "greater_or_equal", "less", "less_or_equal"},
       {"add", "subtract"},
       {"multiply", "divide", "modulo"} >>

\* every Operator::new(_, Left) of the table
Assoc(rule) == "Left"

\* parser.rs 32: the rules the climber passes over
ClimberSkips == {"empty_line"}

IsOperator(rule) == \E i \in 1..Len(OperatorTable) : rule \in OperatorTable[i]

\* PrecClimber::new numbers the levels of the table from 1
Prec(rule) == CHOOSE i \in 1..Len(OperatorTable) : rule \in OperatorTable[i]

\* parser.rs 387-400
AstOpOf(rule) ==
    CASE rule = "add" -> "Add"
      [] rule = "subtract" -> "Subtract"
      [] rule = "multiply" -> "Multiply"
      [] rule = "divide" -> "Divide"
      [] rule = "modulo" -> "Modulo"
      [] rule = "equal" -> "Equal"
      [] rule = "not_equal" -> "NotEqual"
      [] rule = "greater" -> "Greater"
      [] rule = "greater_or_equal" -> "GreaterOrEqual"
      [] rule = "less" -> "Less"
      [] rule = "less_or_equal" -> "LessOrEqual"
      [] rule = "and" -> "And"
      [] rule = "or" -> "Or"

\* parser.rs 377-386: the infix callback of the climber
infix(lhs, op, rhs) ==
    AstNode_new(op.span, [tag |-> "Op", op |-> AstOpOf(op.rule), lhs |-> lhs, rhs |-> rhs])

\* parser.rs 325-329 with every compound operator lowered to Add
AssignOpOfAllAdd(rule) ==
    CASE rule = "assign_add" -> "Add"
      [] rule = "assign_subtract" -> "Add"
      [] rule = "assign_multiply" -> "Add"
      [] rule = "assign_divide" -> "Add"
      [] rule = "assign_modulo" -> "Add"

\* parser.rs 325-329
AssignOpOf(rule) ==
    CASE rule = "assign_add" -> "Add"
      [] rule = "assign_subtract" -> "Subtract"
      [] rule = "assign_multiply" -> "Multiply"
      [] rule = "assign_divide" -> "Divide"
      [] rule = "assign_modulo" -> "Modulo"

\* parser.rs 294-299 with the scope always Local
ScopeOfAlwaysLocal(assignment_id) == "Local"

\* parser.rs 294-299 and 344-349: the scope of an assignment_id pair
ScopeOf(assignment_id) ==
    IF assignment_id.inner[1].rule = "global_keyword" THEN "Global" ELSE "Local"

\* the remaining inner pairs once the scope has been read
AfterScope(assignment_id) ==
    IF assignment_id.inner[1].rule = "global_keyword"
    THEN Tail(assignment_id.inner) ELSE assignment_id.inner

(***************************************************************************)
(* KotoParser::build_ast                                                   *)
(***************************************************************************)
RECURSIVE build_ast(_), build_all(_), pair_as_lookup(_), climb_rec(_, _, _, _),
          climb_rhs(_, _, _, _)

\* inner.map(|pair| self.build_ast(pair)).collect()
build_all(pairs) == [i \in 1..Len(pairs) |-> build_ast(pairs[i])]

\* parser.rs 64-94
pair_as_lookup(lookup_pair) ==
    [i \in 1..Len(lookup_pair.inner) |->
        LET pair == lookup_pair.inner[i]
        IN CASE pair.rule = "id" -> [tag |-> "Id", id |-> pair.str]
             [] pair.rule = "map_access" -> [tag |-> "Id", id |-> pair.inner[1].str]
             [] pair.rule = "index" ->
                    [tag |-> "Index", expression |-> build_ast(pair.inner[1])]
             [] pair.rule = "call_args" ->
                    [tag |-> "Call", args |-> build_all(pair.inner)]]

\* PrecClimber::climb: the loop that folds operators of at least min_prec
\* into lhs; the result is the node and the position of the next token
climb_rec(lhs, min_prec, toks, pos) ==
    IF pos > Len(toks) \/ ~IsOperator(toks[pos].rule)
    THEN [node |-> lhs, pos |-> pos]
    ELSE LET prec == Prec(toks[pos].rule)
         IN IF prec < min_prec
            THEN [node |-> lhs, pos |-> pos]
            ELSE LET r == climb_rhs(build_ast(toks[pos + 1]), prec, toks, pos + 2)
                 IN climb_rec(infix(lhs, toks[pos], r.node), min_prec, toks, r.pos)

\* PrecClimber::climb: the inner loop that lets the right operand take the
\* operators binding tighter than prec (or equally tight and right-associative)
climb_rhs(rhs, prec, toks, pos) ==
    IF pos > Len(toks) \/ ~IsOperator(toks[pos].rule)
    THEN [node |-> rhs, pos |-> pos]
    ELSE LET new_prec == Prec(toks[pos].rule)
         IN IF new_prec > prec \/ (Assoc(toks[pos].rule) = "Right" /\ new_prec = prec)
            THEN LET r == climb_rec(rhs, new_prec, toks, pos)
                 IN climb_rhs(r.node, prec, toks, r.pos)
            ELSE [node |-> rhs, pos |-> pos]

\* PrecClimber::climb over the inner pairs of an operation
climb(pairs) ==
    LET toks == SelectSeq(pairs, LAMBDA p : p.rule \notin ClimberSkips)
    IN climb_rec(build_ast(toks[1]), 0, toks, 2).node

\* parser.rs 290-308 and 340-358: the target of an assignment
assign_target(pair) ==
    IF pair.rule = "assignment_id"
    THEN [tag |-> "Id", id |-> AfterScope(pair)[1].str, scope |-> ScopeOf(pair)]
    ELSE [tag |-> "Lookup", lookup |-> pair_as_lookup(pair)]

\* parser.rs 288-333
single_assignment(pair) ==
    LET inner == pair.inner
        target == assign_target(inner[1])
        operator == inner[2].rule
        rhs == build_ast(inner[3])
        expression ==
            IF operator = "assign" THEN rhs
            ELSE AstNode_new(pair.span,
                     [tag |-> "Op", op |-> AssignOpOf(operator),
                      lhs |-> AstNode_new(pair.span, to_node(target)),
                      rhs |-> rhs])
    IN AstNode_new(pair.span,
           [tag |-> "Assign", target |-> target, expression |-> expression])

\* parser.rs 334-373
multiple_assignment(pair) ==
    LET targets == [i \in 1..Len(pair.inner[1].inner) |->
                       assign_target(pair.inner[1].inner[i])]
        expressions == build_all(pair.inner[2].inner)
    IN AstNode_new(pair.span,
           [tag |-> "MultiAssign", targets |-> targets, expressions |-> expressions])

\* parser.rs 408-430
if_inline(pair) ==
    LET inner == pair.inner
        \* inner: if, condition, then, then_node [, else, else_node]
        else_node == IF Len(inner) >= 5 THEN Some(build_ast(inner[6])) ELSE None
    IN AstNode_new(pair.span,
           [tag |-> "If", condition |-> build_ast(inner[2]),
            then_node |-> build_ast(inner[4]), else_node |-> else_node,
            else_if_condition |-> None, else_if_node |-> None])

\* parser.rs 431-467
if_block(pair) ==
    LET inner == pair.inner
        \* inner: if, condition, then_node, then whatever follows
        has_else_if == Len(inner) >= 4 /\ inner[4].rule = "else_if_block"
        else_if_condition ==
            IF has_else_if THEN Some(build_ast(inner[4].inner[2])) ELSE None
        else_if_node ==
            IF has_else_if THEN Some(build_ast(inner[4].inner[3])) ELSE None
        rest == IF has_else_if THEN 5 ELSE 4
        \* the next pair, whatever its rule: its first inner pair is skipped
        \* as the keyword and its second is built
        else_node ==
            IF Len(inner) >= rest THEN Some(build_ast(inner[rest].inner[2])) ELSE None
    IN AstNode_new(pair.span,
           [tag |-> "If", condition |-> build_ast(inner[2]),
            then_node |-> build_ast(inner[3]),
            else_if_condition |-> else_if_condition,
            else_if_node |-> else_if_node, else_node |-> else_node])

\* pair.as_str() of a pair on one line: the slice of the source the pair
\* spans, which is its tokens with the blanks that separate them
RECURSIVE as_str(_)
as_str(pair) ==
    IF pair.inner = <<>> THEN pair.str
    ELSE concat([i \in 1..Len(pair.inner) |->
                    (IF i = 1 THEN <<>>
                     ELSE repeat(" ", pair.inner[i].span.start.column
                                         - pair.inner[i - 1].span.end.column))
                        \o as_str(pair.inner[i])])

\* the text of a pair printed anew: its tokens, one blank between them
RECURSIVE reprinted(_)
reprinted(pair) ==
    IF pair.inner = <<>> THEN pair.str
    ELSE concat([i \in 1..Len(pair.inner) |->
                    (IF i = 1 THEN <<>> ELSE <<" ">>) \o reprinted(pair.inner[i])])

\* the debug arm with the text printed anew instead of sliced
debug_reprinted(pair) ==
    LET expressions == pair.inner[2].inner
    IN AstNode_new(pair.span,
           [tag |-> "Debug",
            expressions |-> [i \in 1..Len(expressions) |->
                                [text |-> reprinted(expressions[i]),
                                 node |-> build_ast(expressions[i])]]])

\* parser.rs 274-287
debug(pair) ==
    LET expressions == pair.inner[2].inner
    IN AstNode_new(pair.span,
           [tag |-> "Debug",
            expressions |-> [i \in 1..Len(expressions) |->
                                [text |-> as_str(expressions[i]),
                                 node |-> build_ast(expressions[i])]]])

\* the range arm with the IndexRange built whatever bounds are present
range_always_index(pair) ==
    LET inner == pair.inner
        has_start == inner[1].rule # "range_op"
        op_at == IF has_start THEN 2 ELSE 1
    IN AstNode_new(pair.span,
           [tag |-> "IndexRange",
            start |-> IF has_start THEN Some(build_ast(inner[1])) ELSE None,
            end |-> IF Len(inner) > op_at THEN Some(build_ast(inner[op_at + 1]))
                    ELSE None,
            inclusive |-> inner[op_at].str = <<".", ".", "=">>])

\* parser.rs 150-184
range(pair) ==
    LET inner == pair.inner
        has_start == inner[1].rule # "range_op"
        maybe_start == IF has_start THEN Some(build_ast(inner[1])) ELSE None
        op_at == IF has_start THEN 2 ELSE 1
        inclusive == inner[op_at].str = <<".", ".", "=">>
        maybe_end == IF Len(inner) > op_at THEN Some(build_ast(inner[op_at + 1]))
                     ELSE None
    IN IF maybe_start # None /\ maybe_end # None
       THEN AstNode_new(pair.span,
                [tag |-> "Range", start |-> maybe_start.value,
                 end |-> maybe_end.value, inclusive |-> inclusive])
       ELSE AstNode_new(pair.span,
                [tag |-> "IndexRange", start |-> maybe_start, end |-> maybe_end,
                 inclusive |-> inclusive])

build_ast(pair) ==
    LET span == pair.span
        rule == pair.rule
    IN CASE rule = "next_expression" -> build_ast(pair.inner[1])
         [] rule \in {"program", "child_block"} ->
                AstNode_new(span, [tag |-> "Block", nodes |-> build_all(pair.inner)])
         [] rule \in {"expressions", "value_terms"} ->
                LET expressions == build_all(pair.inner)
                IN IF Len(expressions) = 1 THEN expressions[1]
                   ELSE AstNode_new(span, [tag |-> "List", nodes |-> expressions])
         [] rule = "empty" -> AstNode_new(span, [tag |-> "Empty"])
         [] rule = "boolean" ->
                AstNode_new(span, [tag |-> "Bool", value |-> parse_bool(pair.str)])
         [] rule = "number" ->
                AstNode_new(span, [tag |-> "Number", value |-> parse_number(pair.str)])
         [] rule = "string" ->
                AstNode_new(span, [tag |-> "Str", value |-> pair.inner[1].str])
         [] rule = "list" ->
                AstNode_new(span, [tag |-> "List", nodes |-> build_all(pair.inner)])
         [] rule = "range" -> range(pair)
         [] rule \in {"debug_with_parens", "debug_no_parens"} -> debug(pair)
         [] rule = "lookup" ->
                AstNode_new(span, [tag |-> "Lookup", lookup |-> pair_as_lookup(pair)])
         [] rule = "id" -> AstNode_new(span, [tag |-> "Id", id |-> pair.str])
         [] rule = "return_expression" ->
                AstNode_new(span,
                    [tag |-> "ReturnExpression",
                     expression |-> IF Len(pair.inner) >= 2
                                    THEN Some(build_ast(pair.inner[2])) ELSE None])
         [] rule = "negate" ->
                AstNode_new(span,
                    [tag |-> "Negate", expression |-> build_ast(pair.inner[2])])
         [] rule \in {"function_block", "function_inline"} ->
                AstNode_new(span,
                    [tag |-> "Function",
                     args |-> [i \in 1..Len(pair.inner[1].inner) |->
                                  pair.inner[1].inner[i].str],
                     body |-> build_all(Tail(pair.inner))])
         [] rule = "single_assignment" -> single_assignment(pair)
         [] rule = "multiple_assignment" -> multiple_assignment(pair)
         [] rule = "operation" -> climb(pair.inner)
         [] rule = "if_inline" -> if_inline(pair)
         [] rule = "if_block" -> if_block(pair)
         [] rule = "break_" -> AstNode_new(span, [tag |-> "Break"])
         [] rule = "continue_" -> AstNode_new(span, [tag |-> "Continue"])

(***************************************************************************)
(* KotoParser::parse. The grammar's outcome for a source text is either    *)
(* its error or the pairs it produced, the first being the program.        *)
(***************************************************************************)
NoResult == [tag |-> "none"]
Err(e) == [tag |-> "Err", error |-> e]
Ok(v) == [tag |-> "Ok", value |-> v]

\* parse that answers a grammar error with an empty program
KotoParser_parse_lenient(parsed) ==
    IF parsed.tag = "Err"
    THEN Ok(AstNode_new(Span(1, 1, 1, 1), [tag |-> "Block", nodes |-> <<>>]))
    ELSE Ok(build_ast(parsed.value[1]))

\* parser.rs 37-41
KotoParser_parse(parsed) ==
    IF parsed.tag = "Err" THEN Err(parsed.error)
    ELSE Ok(build_ast(parsed.value[1]))

(***************************************************************************)
(* The grammar outcomes drawn for the parser: pair trees of the shapes     *)
(* build_ast reads, laid out on source lines.                              *)
(***************************************************************************)
OperatorRules ==
    {"and", "or", "equal", "not_equal", "greater", "greater_or_equal", "less",
     "less_or_equal", "add", "subtract", "multiply", "divide", "modulo"}

OperatorText(rule) ==
    CASE rule = "and" -> <<"a", "n", "d">>
      [] rule = "or" -> <<"o", "r">>
      [] rule = "equal" -> <<"=", "=">>
      [] rule = "not_equal" -> <<"!", "=">>
      [] rule = "greater" -> <<">">>
      [] rule = "greater_or_equal" -> <<">", "=">>
      [] rule = "less" -> <<"<">>
      [] rule = "less_or_equal" -> <<"<", "=">>
      [] rule = "add" -> <<"+">>
      [] rule = "subtract" -> <<"-">>
      [] rule = "multiply" -> <<"*">>
      [] rule = "divide" -> <<"/">>
      [] rule = "modulo" -> <<"%">>

AssignRules ==
    {"assign", "assign_add", "assign_subtract", "assign_multiply", "assign_divide",
     "assign_modulo"}

AssignText(rule) ==
    CASE rule = "assign" -> <<"=">>
      [] rule = "assign_add" -> <<"+", "=">>
      [] rule = "assign_subtract" -> <<"-", "=">>
      [] rule = "assign_multiply" -> <<"*", "=">>
      [] rule = "assign_divide" -> <<"/", "=">>
      [] rule = "assign_modulo" -> <<"%", "=">>

Num(n, line, col) == Tok("number", to_string(n), line, col)
Ident(name, line, col) == Tok("id", <<name>>, line, col)
Keyword(rule, text, line, col) == Tok(rule, text, line, col)

GlobalText == <<"g", "l", "o", "b", "a", "l">>
IfText == <<"i", "f">>
ThenText == <<"t", "h", "e", "n">>
ElseText == <<"e", "l", "s", "e">>
ElseIfText == <<"e", "l", "s", "e", " ", "i", "f">>

\* operand k of an operation is the number k; operator k follows it
OperationPair(ops, line, col) ==
    Pair("operation",
         [i \in 1..(2 * Len(ops) + 1) |->
            IF i % 2 = 1 THEN Num((i + 1) \div 2, line, col + 3 * (i - 1))
            ELSE Tok(ops[i \div 2], OperatorText(ops[i \div 2]), line,
                     col + 3 * (i - 1) - 1)])

TargetKinds == {"local", "global", "lookup"}
TargetNames == <<"a", "b", "c", "d", "e">>

\* `name`, `global name` or `name.k`, ending before column col + 9
TargetPair(kind, name, line, col) ==
    CASE kind = "local" -> Pair("assignment_id", <<Ident(name, line, col + 7)>>)
      [] kind = "global" ->
            Pair("assignment_id",
                 <<Keyword("global_keyword", GlobalText, line, col),
                   Ident(name, line, col + 7)>>)
      [] kind = "lookup" ->
            Pair("lookup",
                 <<Ident(name, line, col + 5),
                   Pair("map_access", <<Ident("k", line, col + 7)>>)>>)

RhsPairs(line, col) ==
    {Num(7, line, col), Ident("y", line, col),
     OperationPair(<<"add">>, line, col), OperationPair(<<"multiply", "subtract">>, line, col)}

SingleAssignmentPairs(line) ==
    {Pair("single_assignment",
          <<TargetPair(kind, "x", line, 1), Tok(op, AssignText(op), line, 10), rhs>>) :
        kind \in TargetKinds, op \in AssignRules, rhs \in RhsPairs(line, 13)}

MultipleAssignmentPair(kinds, line) ==
    Pair("multiple_assignment",
         <<Pair("assignment_targets",
                [i \in 1..Len(kinds) |->
                    TargetPair(kinds[i], TargetNames[i], line, 10 * (i - 1) + 1)]),
           Pair("assignment_expressions",
                [i \in 1..Len(kinds) |-> Num(i, line, 10 * Len(kinds) + 3 * i)])>>)

MultipleAssignmentPairs(line) ==
    UNION {{MultipleAssignmentPair(kinds, line) : kinds \in [1..n -> TargetKinds]} :
             n \in 2..MaxTargets}

\* an indented block of one expression, the number n, on its own line
ChildBlock(n, line) == Pair("child_block", <<Num(n, line, 3)>>)

\* if c0 / else if c1 / ... / else, every condition and every block on a
\* line of its own: the else-if branch i tests the id TargetNames[i]
IfBlockPair(else_ifs, has_else, line) ==
    Pair("if_block",
         <<Keyword("if_keyword", IfText, line, 1), Ident("x", line, 4),
           ChildBlock(0, line + 1)>>
         \o [i \in 1..else_ifs |->
               Pair("else_if_block",
                    <<Keyword("else_if_keyword", ElseIfText, line + 2 * i, 1),
                      Ident(TargetNames[i], line + 2 * i, 9),
                      ChildBlock(i, line + 2 * i + 1)>>)]
         \o (IF has_else
             THEN <<Pair("else_block",
                         <<Keyword("else_keyword", ElseText, line + 2 * else_ifs + 2, 1),
                           ChildBlock(9, line + 2 * else_ifs + 3)>>)>>
             ELSE <<>>))

IfBlockPairs(line) ==
    {IfBlockPair(n, e, line) : n \in 0..MaxElseIf, e \in BOOLEAN}

IfInlinePairs(line) ==
    {Pair("if_inline",
          <<Keyword("if_keyword", IfText, line, 1), Ident("x", line, 4),
            Keyword("then_keyword", ThenText, line, 6), Num(1, line, 11)>>
          \o (IF e THEN <<Keyword("else_keyword", ElseText, line, 13), Num(2, line, 18)>>
              ELSE <<>>)) : e \in BOOLEAN}

\* the bounds a range can have on either side: none, a number, an id
RangeBounds == {"none", "number", "id"}

RangeOps == {<<".", ".">>, <<".", ".", "=">>}

BoundPair(kind, n, line, col) ==
    IF kind = "number" THEN <<Num(n, line, col)>>
    ELSE IF kind = "id" THEN <<Ident("r", line, col)>>
    ELSE <<>>

\* start..end, start..=end, with either bound left out
RangePairs(line) ==
    {Pair("range",
          BoundPair(s, 1, line, 1) \o <<Tok("range_op", op, line, 2)>>
              \o BoundPair(e, 2, line, 2 + Len(op))) :
        s \in RangeBounds, e \in RangeBounds, op \in RangeOps}

\* the sub-expressions a debug expression is drawn from, as written
DebugKinds == {"number", "id", "sum", "conj"}

DebugText == <<"d", "e", "b", "u", "g">>

KindText(kind) ==
    CASE kind = "number" -> <<"7">>
      [] kind = "id" -> <<"y">>
      [] kind = "sum" -> <<"1", " ", "+", " ", " ", " ", "2">>
      [] kind = "conj" -> <<"1", " ", "a", "n", "d", " ", "2">>

KindPair(kind, line, col) ==
    CASE kind = "number" -> Num(7, line, col)
      [] kind = "id" -> Ident("y", line, col)
      [] kind = "sum" -> OperationPair(<<"add">>, line, col)
      [] kind = "conj" -> OperationPair(<<"and">>, line, col)

\* the column sub-expression i starts at: after `debug `, the earlier
\* sub-expressions and the `, ` that follows each
RECURSIVE DebugColumn(_, _)
DebugColumn(kinds, i) ==
    IF i = 1 THEN Len(DebugText) + 2
    ELSE DebugColumn(kinds, i - 1) + Len(KindText(kinds[i - 1])) + 2

\* the line `debug e1, e2, ...` or `debug(e1, e2, ...)`
DebugSource(kinds, parens) ==
    DebugText \o (IF parens THEN <<"(">> ELSE <<" ">>)
        \o concat([i \in 1..Len(kinds) |->
                      (IF i = 1 THEN <<>> ELSE <<",", " ">>) \o KindText(kinds[i])])
        \o (IF parens THEN <<")">> ELSE <<>>)

\* its pairs: the keyword and the sub-expressions; the pair keeps the line
DebugPair(kinds, parens, line) ==
    [rule |-> IF parens THEN "debug_with_parens" ELSE "debug_no_parens",
     str |-> DebugSource(kinds, parens),
     span |-> Span(line, 1, line, 1 + Len(DebugSource(kinds, parens))),
     inner |-> <<Keyword("debug_keyword", DebugText, line, 1),
                 Pair(IF parens THEN "call_args" ELSE "operations",
                      [i \in 1..Len(kinds) |->
                          KindPair(kinds[i], line, DebugColumn(kinds, i))])>>]

DebugPairs(line) ==
    UNION {{DebugPair(kinds, parens, line) :
              kinds \in [1..n -> DebugKinds], parens \in BOOLEAN} : n \in 1..MaxDebug}

ArgNames == {"a", "b"}

\* |x, y, ...| 1: the names between the bars, then the body
FunctionPair(args, line) ==
    Pair("function_inline",
         <<PairAt("function_args",
                  [i \in 1..Len(args) |-> Ident(args[i], line, 3 * i - 1)],
                  Span(line, 1, line, 3 * Len(args) + 2)),
           Num(1, line, 3 * Len(args) + 3)>>)

FunctionPairs(line) ==
    UNION {{FunctionPair(args, line) : args \in [1..n -> ArgNames]} : n \in 0..MaxArgs}

\* the assignments, conditionals, ranges, debug expressions and function
\* literals drawn as the one top-level expression
ExpressionPairs(line) ==
    SingleAssignmentPairs(line) \cup MultipleAssignmentPairs(line)
        \cup IfBlockPairs(line) \cup IfInlinePairs(line) \cup RangePairs(line)
        \cup DebugPairs(line) \cup FunctionPairs(line)

\* a program of one top-level expression
ProgramOf(expression) == Ok(<<Pair("program", <<expression>>)>>)

\* a program of n one-token expressions, one per line
SmallProgram(n) ==
    PairAt("program", [i \in 1..n |-> Num(i, i, 1)], Span(1, 1, n + 1, 1))

GrammarErrors == {"syntax", "indentation"}

\* what the grammar makes of a source text: an error, or the pairs of an
\* operation of up to MaxOps operators, of an assignment, of a conditional
\* or of a program of up to MaxTopLevel expressions
GrammarOutcome(outcome) ==
    \/ \E e \in GrammarErrors : outcome = Err(e)
    \/ \E n \in 1..MaxOps : \E ops \in [1..n -> OperatorRules] :
          outcome = ProgramOf(OperationPair(ops, 1, 1))
    \/ \E x \in ExpressionPairs(1) : outcome = ProgramOf(x)
    \/ \E n \in 0..MaxTopLevel : outcome = Ok(<<SmallProgram(n)>>)

(***************************************************************************)
(* ParserSpec: a source text is drawn, with what the grammar makes of it,  *)
(* and parsed.                                                             *)
(***************************************************************************)
ParserInit ==
    /\ GrammarOutcome(pest_result)
    /\ parse_result = NoResult

ParserParse ==
    /\ parse_result = NoResult
    /\ parse_result' = KotoParser_parse(pest_result)
    /\ UNCHANGED <<pest_result, fmt_vars, koto_vars, repl_vars, help_vars>>

(***************************************************************************)
(* FormatSpec: format_runtime_error applied to a drawn script, message and *)
(* span. A span is the one of a parsed node (lines from 1, start not after *)
(* end) or the one of AstNode::default().                                  *)
(***************************************************************************)
ShortScript == <<"a", "b", NL, "c", "d", CR, NL, "e", "f">>

\* MaxLine lines, line i being "l" and the last digit of i
LongScript == concat([i \in 1..MaxLine |-> <<"l", DigitChar(i % 10), NL>>])

FmtScripts == {<<>>, ShortScript, LongScript}

FmtMessages == {<<"e">>, <<"n", "o", " ", "x">>}

SourcePositions == {Position(l, c) : l \in 1..MaxLine, c \in 1..MaxCol}

\* the position of a derived Default: both fields zero
DefaultPosition == Position(0, 0)

NotAfter(p, q) == p.line < q.line \/ (p.line = q.line /\ p.column <= q.column)

FmtSpans ==
    {<<p, q>> \in SourcePositions \X SourcePositions : NotAfter(p, q)}
        \cup {<<DefaultPosition, DefaultPosition>>}

FormatInit ==
    /\ fmt_script \in FmtScripts
    /\ fmt_message \in FmtMessages
    /\ \E sp \in FmtSpans : fmt_start = sp[1] /\ fmt_end = sp[2]
    /\ fmt_checked \in BOOLEAN
    /\ fmt_out = NotCalled

Format ==
    /\ fmt_out = NotCalled
    /\ fmt_out' = format_runtime_error(fmt_script, fmt_message, fmt_start, fmt_end,
                                        fmt_checked)
    /\ UNCHANGED <<fmt_script, fmt_message, fmt_start, fmt_end, fmt_checked>>
    /\ UNCHANGED <<parser_vars, koto_vars, repl_vars, help_vars>>

(***************************************************************************)
(* Values and errors of the runtime                                        *)
(***************************************************************************)
Empty == [tag |-> "Empty"]
Str(text) == [tag |-> "Str", value |-> text]
List(items) == [tag |-> "List", items |-> items]
Number(n) == [tag |-> "Number", value |-> n]
Unit == [tag |-> "Unit"]

\* what a name can be bound to: nothing, a user function (with the AST it was
\* defined in), a native callable, or another value
Absent == [tag |-> "Absent"]
Function(code) == [tag |-> "Function", code |-> code]
BuiltinFunction == [tag |-> "BuiltinFunction"]

RuntimeError(message, start_pos, end_pos) ==
    [tag |-> "RuntimeError", message |-> message, start_pos |-> start_pos,
     end_pos |-> end_pos]
BuiltinError(message) == [tag |-> "BuiltinError", message |-> message]

\* ValueMap::add_value, ValueMap::add_list: the entry of the key takes the
\* value and keeps its place; a new key goes last
add_value_moves_last(map, key, value) ==
    Append(SelectSeq(map, LAMBDA entry : entry.key # key),
           [key |-> key, value |-> value])

add_value(map, key, value) ==
    IF \E i \in 1..Len(map) : map[i].key = key
    THEN [i \in 1..Len(map) |->
            IF map[i].key = key THEN [key |-> key, value |-> value] ELSE map[i]]
    ELSE Append(map, [key |-> key, value |-> value])

get_value(map, key) == map[CHOOSE i \in 1..Len(map) : map[i].key = key].value

\* AstNode::default()
DefaultAstNode ==
    [node |-> [tag |-> "Empty"], start_pos |-> DefaultPosition,
     end_pos |-> DefaultPosition]

(***************************************************************************)
(* The source texts the host hands over, and what the grammar makes of     *)
(* them                                                                    *)
(***************************************************************************)
MainText == <<"m", "a", "i", "n">>
ReturnText == <<"r", "e", "t", "u", "r", "n">>
BreakText == <<"b", "r", "e", "a", "k">>
SizeText == <<"s", "i", "z", "e">>

GlobalMainTarget ==
    Pair("assignment_id",
         <<Keyword("global_keyword", GlobalText, 1, 1), Tok("id", MainText, 1, 8)>>)

Division(line, col) ==
    Pair("operation",
         <<Num(1, line, col), Tok("divide", <<"/">>, line, col + 2), Num(0, line, col + 4)>>)

\* x =
ScriptBad == <<"x", " ", "=">>

\* global main = 1 / 0
ScriptNum == <<"g", "l", "o", "b", "a", "l", " ", "m", "a", "i", "n", " ", "=", " ",
      "1", " ", "/", " ", "0">>

\* global main = size
ScriptAlias == <<"g", "l", "o", "b", "a", "l", " ", "m", "a", "i", "n", " ", "=", " ",
      "s", "i", "z", "e">>

\* global main = ||
\*   1 / 0
\*   return
\*   break
ScriptMain == <<"g", "l", "o", "b", "a", "l", " ", "m", "a", "i", "n", " ", "=", " ",
      "|", "|", NL, " ", " ", "1", " ", "/", " ", "0", NL, " ", " ",
      "r", "e", "t", "u", "r", "n", NL, " ", " ", "b", "r", "e", "a",
      "k">>

Scripts == {ScriptBad, ScriptNum, ScriptAlias, ScriptMain}

\* koto_grammar::KotoParser::parse(Rule::program, source) on these texts
Grammar(source) ==
    CASE source = ScriptBad -> Err("syntax")
      [] source = ScriptNum ->
            Ok(<<Pair("program",
                      <<Pair("single_assignment",
                             <<GlobalMainTarget, Tok("assign", <<"=">>, 1, 13),
                               Division(1, 15)>>)>>)>>)
      [] source = ScriptAlias ->
            Ok(<<Pair("program",
                      <<Pair("single_assignment",
                             <<GlobalMainTarget, Tok("assign", <<"=">>, 1, 13),
                               Tok("id", SizeText, 1, 15)>>)>>)>>)
      [] source = ScriptMain ->
            Ok(<<Pair("program",
                      <<Pair("single_assignment",
                             <<GlobalMainTarget, Tok("assign", <<"=">>, 1, 13),
                               Pair("function_block",
                                    <<PairAt("function_args", <<>>, Span(1, 15, 1, 17)),
                                      Pair("child_block",
                                           <<Division(2, 3),
                                             Pair("return_expression",
                                                  <<Keyword("return_keyword",
                                                            ReturnText, 3, 3)>>),
                                             Tok("break_", BreakText, 4, 3)>>)>>)>>)>>)>>)

\* the Display of a grammar error
ErrorText(e) ==
    CASE e = "syntax" -> <<"s", "y", "n", "t", "a", "x">>
      [] e = "indentation" -> <<"i", "n", "d", "e", "n", "t">>

ArgLists == {<<>>, <<<<"a">>>>, <<<<"b">>, <<"c">>>>}

\* no path, the empty path, the root, a lone file name, files in
\* directories, a directory written with its separator
ScriptPaths ==
    {None, Some(<<>>), Some(<<"/">>), Some(<<"b">>), Some(<<"a", "/", "b">>),
     Some(<<"/", "b">>), Some(<<"a", "/", "b", "/">>)}

\* the paths a host sets between runs: none, and a script in a directory
HostPaths == {None, Some(<<"a", "/", "b">>)}

FunctionNames == {"main", "other"}

ErrorMessage == <<"e">>

(***************************************************************************)
(* The nodes of an AST, and what evaluating them can do                    *)
(***************************************************************************)
Optional(o) == IF o = None THEN <<>> ELSE <<o.value>>

Children(n) ==
    LET node == n.node
    IN CASE node.tag \in {"Block", "List"} -> node.nodes
         [] node.tag = "Op" -> <<node.lhs, node.rhs>>
         [] node.tag = "Assign" -> <<node.expression>>
         [] node.tag = "MultiAssign" -> node.expressions
         [] node.tag = "Negate" -> <<node.expression>>
         [] node.tag = "ReturnExpression" -> Optional(node.expression)
         [] node.tag = "Function" -> node.body
         [] node.tag = "If" ->
                <<node.condition, node.then_node>> \o Optional(node.else_if_condition)
                    \o Optional(node.else_if_node) \o Optional(node.else_node)
         [] OTHER -> <<>>

RECURSIVE nodes_of(_)
nodes_of(n) ==
    {n} \cup UNION {nodes_of(Children(n)[i]) : i \in 1..Len(Children(n))}

\* the nodes evaluated with the node itself: the body of a function literal
\* is evaluated when the function is invoked, not with the literal
RECURSIVE evaluated_with(_)
evaluated_with(n) ==
    IF n.node.tag = "Function" THEN {n}
    ELSE {n} \cup UNION {evaluated_with(Children(n)[i]) : i \in 1..Len(Children(n))}

\* the nodes evaluated by an invocation of a function the code defines
body_nodes(code) ==
    UNION {UNION {evaluated_with(f.node.body[i]) : i \in 1..Len(f.node.body)} :
             f \in {n \in nodes_of(code) : n.node.tag = "Function"}}

\* the nodes whose evaluation can fail: a literal cannot
RaisingTags == {"Op", "Id", "Lookup", "Negate", "MultiAssign"}

raising_nodes(nodes) == {n \in nodes : n.node.tag \in RaisingTags}

\* the control flow signal a node sends
SignalOf(tag) ==
    CASE tag = "ReturnExpression" -> "return"
      [] tag = "Break" -> "break"
      [] tag = "Continue" -> "continue"

signalling_nodes(nodes) ==
    {n \in nodes : n.node.tag \in {"ReturnExpression", "Break", "Continue"}}

\* the assignments `global main = e` among the nodes
main_assignments(nodes) ==
    {n \in nodes :
        /\ n.node.tag = "Assign"
        /\ n.node.target.tag = "Id"
        /\ n.node.target.id = MainText
        /\ n.node.target.scope = "Global"}

\* what `global main = e` binds: a function literal gives a user function of
\* this code, an id names a registered native callable, the rest is a number
bound_value(expression, code) ==
    CASE expression.node.tag = "Function" -> Function(code)
      [] expression.node.tag = "Id" -> BuiltinFunction
      [] OTHER -> Number(1)

(***************************************************************************)
(* The host API of lib.rs                                                  *)
(***************************************************************************)
NoSignal == [kind |-> "none"]
ErrorSignal(e) == [kind |-> "error", error |-> e]
ControlSignal(kind, n) ==
    [kind |-> kind, start_pos |-> n.start_pos, end_pos |-> n.end_pos]

ParseErrorPrefix == <<"E", "r", "r", "o", "r", " ", "w", "h", "i", "l", "e", " ", "p", "a",
      "r", "s", "i", "n", "g", " ", "s", "c", "r", "i", "p", "t", ":",
      " ">>

BuiltinErrorPrefix == <<"B", "u", "i", "l", "t", "i", "n", " ", "e", "r", "r", "o", "r", ":",
      " ">>

\* lib.rs 15-27: the env map of a new instance
NewEnv ==
    add_value(add_value(add_value(<<>>, "script_dir", Empty), "script_path", Empty),
              "args", List(<<>>))

\* lib.rs 44-53: the result, and the script and AST stored afterwards
parse(cur_script, cur_ast, source) ==
    LET r == KotoParser_parse(Grammar(source))
    IN IF r.tag = "Ok"
       THEN [result |-> Ok(Unit), script |-> source, ast |-> r.value]
       ELSE [result |-> Err(ParseErrorPrefix \o ErrorText(r.error)),
             script |-> cur_script, ast |-> cur_ast]

\* lib.rs 55-73 with the arguments added to the list that is there
set_args_appending(cur_env, args) ==
    add_value(cur_env, "args",
              List(get_value(cur_env, "args").items
                       \o [i \in 1..Len(args) |-> Str(args[i])]))

\* lib.rs 55-73
set_args(cur_env, args) ==
    add_value(cur_env, "args", List([i \in 1..Len(args) |-> Str(args[i])]))

\* a path without the separators it ends with, the root kept
RECURSIVE trim_separators(_)
trim_separators(p) ==
    IF Len(p) > 1 /\ p[Len(p)] = "/" THEN trim_separators(SubSeq(p, 1, Len(p) - 1))
    ELSE p

\* a path without the characters of its last component
RECURSIVE drop_component(_)
drop_component(p) ==
    IF p = <<>> \/ p[Len(p)] = "/" THEN p
    ELSE drop_component(SubSeq(p, 1, Len(p) - 1))

\* Path::parent: None for the empty path and for the root, else the path
\* without its last component (the empty path for a lone file name)
parent(p) ==
    LET q == trim_separators(p)
    IN IF q = <<>> \/ q = <<"/">> THEN None
       ELSE Some(trim_separators(drop_component(q)))

\* lib.rs 75-104 with script_dir given the path itself
set_script_path_dir_is_path(cur_env, path) ==
    LET script_dir == IF path = None THEN Empty ELSE Str(path.value)
        script_path == IF path = None THEN Empty ELSE Str(path.value)
    IN add_value(add_value(cur_env, "script_dir", script_dir),
                 "script_path", script_path)

\* lib.rs 75-104
set_script_path(cur_env, path) ==
    LET script_dir ==
            IF path = None THEN Empty
            ELSE IF parent(path.value) = None THEN Empty
            ELSE Str(parent(path.value).value)
        script_path == IF path = None THEN Empty ELSE Str(path.value)
    IN add_value(add_value(cur_env, "script_dir", script_dir),
                 "script_path", script_path)

\* lib.rs 120-125
has_function(binding) == binding.tag = "Function"

\* lib.rs 109-116 and 134-141: the text of an error
render_error(cur_script, e, checked) ==
    IF e.tag = "BuiltinError" THEN Text(BuiltinErrorPrefix \o e.message \o <<NL>>)
    ELSE format_runtime_error(cur_script, e.message, e.start_pos, e.end_pos, checked)

\* lib.rs 106-118 and 127-143: what run and call_function return for the
\* outcome of the evaluation
host_result(cur_script, outcome, checked) ==
    IF outcome.tag = "Ok" THEN outcome
    ELSE LET rendered == render_error(cur_script, outcome.error, checked)
         IN IF rendered = Panic THEN Panic ELSE Err(rendered.text)

\* lib.rs 36-41 with main called whatever run returned
after_run_always_main(run_result, main_binding) ==
    IF has_function(main_binding) THEN "call_main" ELSE "return_empty"

\* lib.rs 36-41: what run_script_with_args does once run has returned
after_run(run_result, main_binding) ==
    IF run_result.tag = "Err" THEN "return_error"
    ELSE IF has_function(main_binding) THEN "call_main"
    ELSE "return_empty"

(***************************************************************************)
(* The evaluator, as far as the host can tell: it invokes functions, each  *)
(* invocation opening a frame that is released when the invocation ends,   *)
(* by fallthrough, return, a propagated break or continue, or an error; it *)
(* rebinds globals; it returns a value or an error.                        *)
(***************************************************************************)
\* the frame left open when an error passes through the invocation
exit_frame_leak_on_error(stack, sig) ==
    IF sig.kind = "error" THEN stack ELSE SubSeq(stack, 1, Len(stack) - 1)

\* the call stack once the innermost invocation has ended, however it ended
exit_frame(stack, sig) == SubSeq(stack, 1, Len(stack) - 1)

\* what is still propagating once an invocation has ended: a return ends
\* with it, an error, a break or a continue goes on to the caller
signal_after_exit(sig) == IF sig.kind = "return" THEN NoSignal ELSE sig

\* the outcome of an evaluation that has come back to the host: a signal
\* nothing caught is a runtime error at the node that sent it
outcome_of(sig, value) ==
    CASE sig.kind = "none" -> Ok(value)
      [] sig.kind = "error" -> Err(sig.error)
      [] OTHER -> Err(RuntimeError(ErrorMessage, sig.start_pos, sig.end_pos))

NoTrace ==
    [api |-> "none", log |-> <<>>, env_before |-> NewEnv, parse_result |-> NoResult,
     run_result |-> NoResult, main_at_check |-> Absent, call_result |-> NoResult,
     call_site |-> NoResult, evaluations |-> 0, deepest |-> 0, error |-> NoResult,
     args |-> <<>>, path |-> None, main_before |-> Absent, code |-> NoResult]

\* the error an evaluation hands to the match of run or call_function
error_of(outcome) == IF outcome.tag = "Err" THEN outcome.error ELSE NoResult

StartTrace(api, first) ==
    [NoTrace EXCEPT !.api = api, !.log = <<first>>, !.env_before = env]

Evaluating == pc \in {"run", "call_function", "rswa_run", "rswa_main"}

\* the evaluator is inside the program: the top-level block of run, or the
\* body of an invoked function
InCode == Evaluating /\ (pc \in {"run", "rswa_run"} \/ activations > 0)

CurrentCode == IF call_stack = <<>> THEN ast ELSE call_stack[Len(call_stack)].code

\* the nodes being evaluated: the top-level block, or the body of the
\* function invoked last
CurrentNodes ==
    IF call_stack = <<>> THEN evaluated_with(ast) ELSE body_nodes(CurrentCode)

Frame(code) == [code |-> code]

\* the values a top-level block and a function are taken to return
BlockValues == {Empty, Number(1)}
CallValues == {Empty, Number(2)}

KotoInit ==
    /\ script = <<>>
    /\ ast = DefaultAstNode
    /\ env = NewEnv
    /\ global_main = Absent
    /\ call_stack = <<>>
    /\ activations = 0
    /\ signal = NoSignal
    /\ pc = "idle"
    /\ result = NoResult
    /\ trace = NoTrace
    /\ overflow_checks \in BOOLEAN

\* Koto::parse called by the host
HostParse(source) ==
    /\ pc = "idle"
    /\ LET p == parse(script, ast, source)
       IN /\ script' = p.script
          /\ ast' = p.ast
          /\ result' = p.result
          /\ trace' = [StartTrace("parse", "parse") EXCEPT !.parse_result = p.result]
    /\ UNCHANGED <<env, global_main, call_stack, activations, signal, pc,
                   overflow_checks>>
    /\ UNCHANGED <<parser_vars, fmt_vars, repl_vars, help_vars>>

\* Koto::set_args called by the host
HostSetArgs(args) ==
    /\ pc = "idle"
    /\ env' = set_args(env, args)
    /\ result' = Ok(Unit)
    /\ trace' = [StartTrace("set_args", "set_args") EXCEPT
                    !.args = args, !.main_before = global_main]
    /\ UNCHANGED <<script, ast, global_main, call_stack, activations, signal, pc,
                   overflow_checks>>
    /\ UNCHANGED <<parser_vars, fmt_vars, repl_vars, help_vars>>

\* Koto::set_script_path called by the host
HostSetScriptPath(path) ==
    /\ pc = "idle"
    /\ env' = set_script_path(env, path)
    /\ result' = Ok(Unit)
    /\ trace' = [StartTrace("set_script_path", "set_script_path") EXCEPT
                    !.path = path, !.main_before = global_main]
    /\ UNCHANGED <<script, ast, global_main, call_stack, activations, signal, pc,
                   overflow_checks>>
    /\ UNCHANGED <<parser_vars, fmt_vars, repl_vars, help_vars>>

\* Koto::run called by the host: the evaluation of the stored AST begins
HostRun ==
    /\ pc = "idle"
    /\ pc' = "run"
    /\ signal' = NoSignal
    /\ trace' = [StartTrace("run", "run") EXCEPT !.evaluations = 1, !.code = ast]
    /\ UNCHANGED <<script, ast, env, global_main, call_stack, activations, result,
                   overflow_checks>>
    /\ UNCHANGED <<parser_vars, fmt_vars, repl_vars, help_vars>>

\* the binding lookup_and_call_function finds for a name
binding_of(name) == IF name = "main" THEN global_main ELSE Absent

\* Koto::call_function called by the host on a user function: its invocation
\* begins
HostCallFunction(name) ==
    /\ pc = "idle"
    /\ has_function(binding_of(name))
    /\ pc' = "call_function"
    /\ signal' = NoSignal
    /\ call_stack' = Append(call_stack, Frame(binding_of(name).code))
    /\ activations' = activations + 1
    /\ trace' = [StartTrace("call_function", "call_function") EXCEPT
                    !.evaluations = 1, !.deepest = 1,
                    !.code = binding_of(name).code]
    /\ UNCHANGED <<script, ast, env, global_main, result, overflow_checks>>
    /\ UNCHANGED <<parser_vars, fmt_vars, repl_vars, help_vars>>

\* Koto::call_function called by the host on a native callable: it returns a
\* value or its error, which has no position
HostCallBuiltin(name, outcome) ==
    /\ pc = "idle"
    /\ binding_of(name) = BuiltinFunction
    /\ LET r == host_result(script, outcome, overflow_checks)
       IN /\ result' = r
          /\ trace' = [StartTrace("call_function", "call_function") EXCEPT
                          !.call_result = r,
                          !.error = error_of(outcome),
                          !.call_site = IF outcome.tag = "Err"
                                        THEN DefaultAstNode ELSE NoResult]
    /\ UNCHANGED <<script, ast, env, global_main, call_stack, activations, signal, pc,
                   overflow_checks>>
    /\ UNCHANGED <<parser_vars, fmt_vars, repl_vars, help_vars>>

\* Koto::call_function called by the host on a name that is no callable: a
\* runtime error at the node handed over as the call site, AstNode::default()
HostCallMissing(name) ==
    /\ pc = "idle"
    /\ binding_of(name).tag \notin {"Function", "BuiltinFunction"}
    /\ LET e == RuntimeError(ErrorMessage, DefaultAstNode.start_pos,
                             DefaultAstNode.end_pos)
           r == host_result(script, Err(e), overflow_checks)
       IN /\ result' = r
          /\ pc' = IF r = Panic THEN "panicked" ELSE "idle"
          /\ trace' = [StartTrace("call_function", "call_function") EXCEPT
                          !.call_result = r, !.error = e]
    /\ UNCHANGED <<script, ast, env, global_main, call_stack, activations, signal,
                   overflow_checks>>
    /\ UNCHANGED <<parser_vars, fmt_vars, repl_vars, help_vars>>

\* Koto::run_script_with_args called by the host, up to the start of run
HostRunScriptWithArgs(source, args) ==
    /\ pc = "idle"
    /\ LET p == parse(script, ast, source)
           t == [StartTrace("run_script_with_args", "parse") EXCEPT
                    !.parse_result = p.result]
       IN /\ script' = p.script
          /\ ast' = p.ast
          /\ IF p.result.tag = "Err"
             THEN /\ result' = p.result
                  /\ trace' = t
                  /\ UNCHANGED <<env, pc, signal>>
             ELSE /\ env' = set_args(env, args)
                  /\ pc' = "rswa_run"
                  /\ signal' = NoSignal
                  /\ trace' = [t EXCEPT !.log = <<"parse", "set_args", "run">>,
                                        !.evaluations = 1]
                  /\ UNCHANGED result
    /\ UNCHANGED <<global_main, call_stack, activations, overflow_checks>>
    /\ UNCHANGED <<parser_vars, fmt_vars, repl_vars, help_vars>>

\* the evaluator invokes a user function: main, or one the code defines
EvalEnter ==
    /\ InCode
    /\ signal = NoSignal
    /\ Len(call_stack) < MaxCallDepth
    /\ \E code \in (IF has_function(global_main) THEN {global_main.code} ELSE {})
                     \cup {c \in {CurrentCode} :
                             \E n \in CurrentNodes : n.node.tag = "Function"} :
          call_stack' = Append(call_stack, Frame(code))
    /\ activations' = activations + 1
    /\ trace' = [trace EXCEPT !.deepest = IF @ > Len(call_stack) THEN @
                                          ELSE Len(call_stack) + 1]
    /\ UNCHANGED <<script, ast, env, global_main, signal, pc, result,
                   overflow_checks>>
    /\ UNCHANGED <<parser_vars, fmt_vars, repl_vars, help_vars>>

\* the innermost invocation ends: by fallthrough, or with what is propagating
EvalExit ==
    /\ Evaluating
    /\ activations > 0
    /\ call_stack' = exit_frame(call_stack, signal)
    /\ activations' = activations - 1
    /\ signal' = signal_after_exit(signal)
    /\ UNCHANGED <<script, ast, env, global_main, pc, result, trace, overflow_checks>>
    /\ UNCHANGED <<parser_vars, fmt_vars, repl_vars, help_vars>>

\* a node of the code being evaluated fails
EvalRaise ==
    /\ InCode
    /\ signal = NoSignal
    /\ \E n \in raising_nodes(CurrentNodes) :
          signal' = ErrorSignal(RuntimeError(ErrorMessage, n.start_pos, n.end_pos))
    /\ UNCHANGED <<script, ast, env, global_main, call_stack, activations, pc, result,
                   trace, overflow_checks>>
    /\ UNCHANGED <<parser_vars, fmt_vars, repl_vars, help_vars>>

\* a native callable invoked by a node of the code being evaluated fails
EvalBuiltinError ==
    /\ InCode
    /\ signal = NoSignal
    /\ \E n \in raising_nodes(CurrentNodes) :
          /\ signal' = ErrorSignal(BuiltinError(ErrorMessage))
          /\ trace' = [trace EXCEPT !.call_site = n]
    /\ UNCHANGED <<script, ast, env, global_main, call_stack, activations, pc, result,
                   overflow_checks>>
    /\ UNCHANGED <<parser_vars, fmt_vars, repl_vars, help_vars>>

\* a return, a break or a continue of the code being evaluated is reached
EvalSignal ==
    /\ InCode
    /\ signal = NoSignal
    /\ \E n \in signalling_nodes(CurrentNodes) :
          signal' = ControlSignal(SignalOf(n.node.tag), n)
    /\ UNCHANGED <<script, ast, env, global_main, call_stack, activations, pc, result,
                   trace, overflow_checks>>
    /\ UNCHANGED <<parser_vars, fmt_vars, repl_vars, help_vars>>

\* an assignment `global main = e` of the code being evaluated is carried out
EvalAssignMain ==
    /\ InCode
    /\ signal = NoSignal
    /\ \E n \in main_assignments(CurrentNodes) :
          /\ global_main' = bound_value(n.node.expression, CurrentCode)
          /\ global_main' # global_main
    /\ UNCHANGED <<script, ast, env, call_stack, activations, signal, pc, result,
                   trace, overflow_checks>>
    /\ UNCHANGED <<parser_vars, fmt_vars, repl_vars, help_vars>>

\* run or call_function, called by the host, returns
EvalReturnToHost ==
    /\ pc \in {"run", "call_function"}
    /\ activations = 0
    /\ \E value \in (IF pc = "run" THEN BlockValues ELSE CallValues) :
          LET r == host_result(script, outcome_of(signal, value), overflow_checks)
          IN /\ result' = r
             /\ pc' = IF r = Panic THEN "panicked" ELSE "idle"
             /\ trace' = IF pc = "run"
                         THEN [trace EXCEPT !.run_result = r,
                                            !.error = error_of(outcome_of(signal, value))]
                         ELSE [trace EXCEPT !.call_result = r,
                                            !.error = error_of(outcome_of(signal, value))]
    /\ signal' = NoSignal
    /\ UNCHANGED <<script, ast, env, global_main, call_stack, activations,
                   overflow_checks>>
    /\ UNCHANGED <<parser_vars, fmt_vars, repl_vars, help_vars>>

\* the run of run_script_with_args returns: lib.rs 36-41
RswaAfterRun ==
    /\ pc = "rswa_run"
    /\ activations = 0
    /\ \E value \in BlockValues :
          LET r == host_result(script, outcome_of(signal, value), overflow_checks)
              next == IF r = Panic THEN "panic" ELSE after_run(r, global_main)
              t == [trace EXCEPT !.run_result = r,
                                 !.error = error_of(outcome_of(signal, value))]
          IN CASE next = "panic" ->
                    /\ result' = r /\ pc' = "panicked" /\ trace' = t
                    /\ UNCHANGED <<call_stack, activations>>
               [] next = "return_error" ->
                    /\ result' = r /\ pc' = "idle" /\ trace' = t
                    /\ UNCHANGED <<call_stack, activations>>
               [] next = "return_empty" ->
                    /\ result' = Ok(Empty) /\ pc' = "idle"
                    /\ trace' = [t EXCEPT !.log = Append(@, "has_function"),
                                          !.main_at_check = global_main]
                    /\ UNCHANGED <<call_stack, activations>>
               [] next = "call_main" ->
                    /\ pc' = "rswa_main"
                    /\ call_stack' = Append(call_stack, Frame(global_main.code))
                    /\ activations' = activations + 1
                    /\ trace' = [t EXCEPT
                                    !.log = @ \o <<"has_function", "call_function">>,
                                    !.main_at_check = global_main,
                                    !.evaluations = @ + 1,
                                    !.deepest = IF @ > 1 THEN @ ELSE 1]
                    /\ UNCHANGED result
    /\ signal' = NoSignal
    /\ UNCHANGED <<script, ast, env, global_main, overflow_checks>>
    /\ UNCHANGED <<parser_vars, fmt_vars, repl_vars, help_vars>>

\* the call of main of run_script_with_args returns: lib.rs 38
RswaAfterMain ==
    /\ pc = "rswa_main"
    /\ activations = 0
    /\ \E value \in CallValues :
          LET r == host_result(script, outcome_of(signal, value), overflow_checks)
          IN /\ result' = r
             /\ pc' = IF r = Panic THEN "panicked" ELSE "idle"
             /\ trace' = [trace EXCEPT !.call_result = r,
                                        !.error = error_of(outcome_of(signal, value))]
    /\ signal' = NoSignal
    /\ UNCHANGED <<script, ast, env, global_main, call_stack, activations,
                   overflow_checks>>
    /\ UNCHANGED <<parser_vars, fmt_vars, repl_vars, help_vars>>

Next ==
    \/ \E source \in Scripts : HostParse(source)
    \/ \E args \in ArgLists : HostSetArgs(args)
    \/ \E path \in HostPaths : HostSetScriptPath(path)
    \/ HostRun
    \/ \E name \in FunctionNames : HostCallFunction(name)
    \/ \E name \in FunctionNames, outcome \in {Ok(Number(2)), Err(BuiltinError(ErrorMessage))} :
          HostCallBuiltin(name, outcome)
    \/ \E name \in FunctionNames : HostCallMissing(name)
    \/ \E source \in Scripts, args \in ArgLists : HostRunScriptWithArgs(source, args)
    \/ EvalEnter
    \/ EvalExit
    \/ EvalRaise
    \/ EvalBuiltinError
    \/ EvalSignal
    \/ EvalAssignMain
    \/ EvalReturnToHost
    \/ RswaAfterRun
    \/ RswaAfterMain

(***************************************************************************)
(* The REPL: repl.rs                                                       *)
(*                                                                         *)
(* Koto::compile, Koto::run and is_indentation_error belong to a later     *)
(* version of the koto crate than lib.rs: the compiler and the evaluator   *)
(* are taken as oracles that may answer a text either way.                 *)
(***************************************************************************)
\* repl.rs 19
INDENT_SIZE == 2

\* char::is_whitespace, over the characters of the model
is_whitespace(c) == c \in {" ", NL, CR, "\t"}

\* self.input.chars().all(char::is_whitespace)
all_whitespace(text) == \A i \in 1..Len(text) : is_whitespace(text[i])

\* [String]::join
RECURSIVE join(_, _)
join(texts, sep) ==
    IF texts = <<>> THEN <<>>
    ELSE IF Len(texts) = 1 THEN texts[1]
    ELSE texts[1] \o sep \o join(Tail(texts), sep)

\* str::find(|c| !c.is_whitespace()): the offset of the first character
\* that is not whitespace
find_non_whitespace(text) ==
    LET found == {i \in 1..Len(text) : ~is_whitespace(text[i])}
    IN IF found = {} THEN None
       ELSE Some((CHOOSE i \in found : \A j \in found : i <= j) - 1)

unwrap_or(option, default) == IF option = None THEN default ELSE option.value

\* str::trim
trim(text) ==
    LET kept == {i \in 1..Len(text) : ~is_whitespace(text[i])}
    IN IF kept = {} THEN <<>>
       ELSE SubSeq(text, CHOOSE i \in kept : \A j \in kept : i <= j,
                         CHOOSE i \in kept : \A j \in kept : j <= i)

\* str::starts_with
starts_with(text, prefix) ==
    Len(text) >= Len(prefix) /\ SubSeq(text, 1, Len(prefix)) = prefix

\* text.splitn(2, char::is_whitespace).skip(1).next(): what follows the
\* first whitespace character, if there is one
after_first_whitespace(text) ==
    LET at == {i \in 1..Len(text) : is_whitespace(text[i])}
    IN IF at = {} THEN None
       ELSE Some(SubSeq(text, (CHOOSE i \in at : \A j \in at : i <= j) + 1,
                        Len(text)))

HelpWord == <<"h", "e", "l", "p">>

\* the errors of the compiler and of the evaluator
IndentationError == [kind |-> "indentation"]
SyntaxError == [kind |-> "syntax"]
RunError == [kind |-> "runtime"]

is_indentation_error(e) == e.kind = "indentation"

Chunk(text) == [chunk |-> text]

\* Koto::compile: a text of whitespace compiles, any other text may compile
\* or be refused, as an incomplete indented block or otherwise
CompileOutcomes(text) ==
    IF all_whitespace(text) THEN {Ok(Chunk(text))}
    ELSE {Ok(Chunk(text)), Err(IndentationError), Err(SyntaxError)}

\* Koto::run: the value of the chunk or an error
RunOutcomes == {Ok(Number(1)), Err(RunError)}

\* what on_enter prints: println!("{}", result), print_error and the text of
\* get_help
PrintedResult(value) == [what |-> "result", of |-> value]
PrintedError(e) == [what |-> "error", of |-> e]
PrintedHelp(search) == [what |-> "help", of |-> search]

\* repl.rs 264-279: what is printed when running the chunk of `text` failed
answer_run_error(text, error) ==
    IF trim(text) = HelpWord THEN PrintedHelp(None)
    ELSE IF starts_with(text, HelpWord)
    THEN LET search == after_first_whitespace(trim(text))
         IN IF search # None THEN PrintedHelp(search) ELSE PrintedError(error)
    ELSE PrintedError(error)

\* repl.rs 284 (mutant): an indentation error always keeps the REPL reading
keeps_reading_whatever_pending(e, pending) == is_indentation_error(e)

\* repl.rs 284: the compile error opens a continuation
keeps_reading(e, pending) == is_indentation_error(e) /\ pending = <<>>

\* what an Enter did: the texts compiled, the chunks run, what was printed
Done(compiled_texts, chunks, prints, pending, indent_next_line) ==
    [compiled |-> compiled_texts, ran |-> chunks, printed |-> prints,
     continued_lines |-> pending, indent_next_line |-> indent_next_line]

\* repl.rs 237-304: the body of on_enter, for the line entered, the pending
\* lines, the answer of the compiler (at 248 or at 299) and the answer of the
\* evaluator, should the chunk be run
on_enter_body(line, pending, compiled, ran) ==
    IF pending = <<>> \/ all_whitespace(line)
    THEN LET text == join(pending, <<NL>>)
                     \o (IF all_whitespace(line) THEN <<>> ELSE line)
         IN IF compiled.tag = "Ok"
            THEN Done(<<text>>, <<compiled.value>>,
                      <<IF ran.tag = "Ok" THEN PrintedResult(ran.value)
                        ELSE answer_run_error(text, ran.error)>>,
                      <<>>, FALSE)
            ELSE IF keeps_reading(compiled.error, pending)
            THEN Done(<<text>>, <<>>, <<>>, Append(pending, line), TRUE)
            ELSE Done(<<text>>, <<>>, <<PrintedError(compiled.error)>>, <<>>,
                      FALSE)
    ELSE LET text == join(Append(pending, line), <<NL>>)
         IN Done(<<text>>, <<>>, <<>>, Append(pending, line),
                 compiled.tag = "Err" /\ is_indentation_error(compiled.error))

\* repl.rs 242-248 and 298-299: the text on_enter hands to the compiler
text_to_compile(line, pending) ==
    IF pending = <<>> \/ all_whitespace(line)
    THEN join(pending, <<NL>>) \o (IF all_whitespace(line) THEN <<>> ELSE line)
    ELSE join(Append(pending, line), <<NL>>)

\* repl.rs 310-314 (mutant): a line is pushed even if it is the last entry
push_history_repeating(history, line) ==
    IF ~all_whitespace(line) THEN Append(history, line) ELSE history

\* repl.rs 310-314
push_history(history, line) ==
    IF ~all_whitespace(line)
       /\ (history = <<>> \/ history[Len(history)] # line)
    THEN Append(history, line) ELSE history

\* repl.rs 319-327
current_indent(pending) ==
    IF pending = <<>> THEN 0
    ELSE unwrap_or(find_non_whitespace(pending[Len(pending)]), 0)

\* repl.rs 329-335 (mutant): the next line is never indented further
next_input_same_indent(pending, indent_next_line) ==
    repeat(" ", current_indent(pending))

\* repl.rs 329-335: the input the next line starts with
next_input(pending, indent_next_line) ==
    repeat(" ", IF indent_next_line THEN current_indent(pending) + INDENT_SIZE
                ELSE current_indent(pending))

\* repl.rs 186-197: Key::Char(c), on a line being edited and a cursor
insert_char(text, at, c) ==
    IF at = None THEN [input |-> Append(text, c), cursor |-> None]
    ELSE [input |-> SubSeq(text, 1, at.value) \o <<c>>
                    \o SubSeq(text, at.value + 1, Len(text)),
          cursor |-> Some(at.value + 1)]

RECURSIVE insert_chars(_, _, _)
insert_chars(text, at, typed) ==
    IF typed = <<>> THEN [input |-> text, cursor |-> at]
    ELSE LET one == insert_char(text, at, Head(typed))
         IN insert_chars(one.input, one.cursor, Tail(typed))

\* the lines the user types
TypedLines ==
    { <<"h", "e", "l", "p">>,
      <<" ", "h", "e", "l", "p">>,
      <<"h", "e", "l", "p", " ", "m", "a", "p">>,
      <<"h", "e", "l", "p", "f", "u", "l", " ", "x">>,
      <<"x">> }

NoKey == [key |-> "none", line |-> <<>>, pending |-> <<>>, compiled |-> <<>>,
          compile_answer |-> NoResult, ran |-> <<>>, run_answer |-> NoResult,
          printed |-> <<>>, ended |-> "no"]

\* the last key was not Enter
OtherKey == [NoKey EXCEPT !.key = "other"]

\* the process is alive: it has neither exited nor panicked
Alive == entered.ended = "no"

\* Repl::default
ReplInit ==
    /\ input = <<>>
    /\ continued_lines = <<>>
    /\ input_history = <<>>
    /\ history_position = None
    /\ cursor = None
    /\ entered = NoKey

ReplIdle == ReplInit

\* on_keypress with Key::Char(c), c not a newline, for each character of a
\* line typed at the start of a fresh line
KeyChars(typed) ==
    /\ Alive
    /\ all_whitespace(input)
    /\ Len(input) + Len(typed) <= MaxInput
    /\ LET edited == insert_chars(input, cursor, typed)
       IN /\ input' = edited.input
          /\ cursor' = edited.cursor
    /\ entered' = OtherKey
    /\ UNCHANGED <<continued_lines, input_history, history_position>>
    /\ UNCHANGED <<parser_vars, fmt_vars, koto_vars, help_vars>>

\* on_keypress with Key::Char('\n'): on_enter
KeyEnter ==
    \E compiled \in CompileOutcomes(text_to_compile(input, continued_lines)),
       ran \in RunOutcomes :
        LET done == on_enter_body(input, continued_lines, compiled, ran)
        IN /\ Alive
           /\ Len(done.continued_lines) <= MaxContinued
           /\ Len(push_history(input_history, input)) <= MaxHistory
           /\ continued_lines' = done.continued_lines
           /\ input_history' = push_history(input_history, input)
           /\ history_position' = None
           /\ cursor' = None
           /\ input' = next_input(done.continued_lines, done.indent_next_line)
           /\ entered' = [key |-> "enter", line |-> input,
                          pending |-> continued_lines,
                          compiled |-> done.compiled,
                          compile_answer |-> compiled,
                          ran |-> done.ran,
                          run_answer |-> IF done.ran = <<>> THEN NoResult
                                         ELSE ran,
                          printed |-> done.printed,
                          ended |-> "no"]
           /\ UNCHANGED <<parser_vars, fmt_vars, koto_vars, help_vars>>

ReplNext ==
    \/ \E typed \in TypedLines : KeyChars(typed)
    \/ KeyEnter

\* the fields of the Repl the editing keys work on
Self ==
    [input |-> input, cursor |-> cursor, input_history |-> input_history,
     history_position |-> history_position]

\* what a key handler leaves: the fields it may have assigned, or a panic
Leaves(text, at, position) ==
    [input |-> text, cursor |-> at, history_position |-> position,
     ended |-> "no"]
Panicked(self) ==
    [input |-> self.input, cursor |-> self.cursor,
     history_position |-> self.history_position, ended |-> "panic"]
Exited(self) ==
    [input |-> self.input, cursor |-> self.cursor,
     history_position |-> self.history_position, ended |-> "exit"]

\* String::insert, String::remove: the index is counted from 0
string_insert(text, index, c) ==
    SubSeq(text, 1, index) \o <<c>> \o SubSeq(text, index + 1, Len(text))
string_remove(text, index) ==
    SubSeq(text, 1, index) \o SubSeq(text, index + 2, Len(text))

\* repl.rs 113-129: Key::Up
key_up(self) ==
    IF self.input_history # <<>>
    THEN LET new_position ==
                 IF self.history_position # None
                 THEN (IF self.history_position.value > 0
                       THEN self.history_position.value - 1 ELSE 0)
                 ELSE Len(self.input_history) - 1
         IN IF new_position >= Len(self.input_history) THEN Panicked(self)
            ELSE Leaves(self.input_history[new_position + 1], None,
                      Some(new_position))
    ELSE Leaves(self.input, self.cursor, self.history_position)

\* repl.rs 130-147 (mutant): Down never leaves the history
key_down_stays(self) ==
    IF self.history_position # None
    THEN Leaves(self.input_history[self.history_position.value + 1], None,
              self.history_position)
    ELSE Leaves(<<>>, None, None)

\* repl.rs 130-147: Key::Down
key_down(self) ==
    IF self.history_position # None /\ self.input_history = <<>>
    THEN Panicked(self)
    ELSE LET new_position ==
                 IF self.history_position # None
                 THEN (IF self.history_position.value
                            < Len(self.input_history) - 1
                       THEN Some(self.history_position.value + 1) ELSE None)
                 ELSE None
         IN IF new_position # None
            THEN (IF new_position.value >= Len(self.input_history)
                  THEN Panicked(self)
                  ELSE Leaves(self.input_history[new_position.value + 1], None,
                            new_position))
            ELSE Leaves(<<>>, None, None)

\* repl.rs 148-159: Key::Left
key_left(self) ==
    IF self.cursor # None
    THEN (IF self.cursor.value > 0
          THEN Leaves(self.input, Some(self.cursor.value - 1),
                    self.history_position)
          ELSE Leaves(self.input, self.cursor, self.history_position))
    ELSE IF self.input # <<>>
    THEN Leaves(self.input, Some(Len(self.input) - 1), self.history_position)
    ELSE Leaves(self.input, self.cursor, self.history_position)

\* repl.rs 160-168: Key::Right
key_right(self) ==
    IF self.cursor # None
    THEN (IF self.input = <<>> THEN Panicked(self)
          ELSE IF self.cursor.value < Len(self.input) - 1
          THEN Leaves(self.input, Some(self.cursor.value + 1),
                    self.history_position)
          ELSE Leaves(self.input, None, self.history_position))
    ELSE Leaves(self.input, self.cursor, self.history_position)

\* repl.rs 169-185: Key::Backspace. With the cursor at 0, `position - 1`
\* overflows: a build that checks overflow panics there, and any other
\* build panics in String::remove, whose index is then past the end
key_backspace(self) ==
    IF self.cursor # None
    THEN LET new_position == self.cursor.value - 1
         IN IF new_position < 0 \/ new_position >= Len(self.input)
            THEN Panicked(self)
            ELSE LET text == string_remove(self.input, new_position)
                 IN Leaves(text, IF text = <<>> THEN None ELSE Some(new_position),
                         self.history_position)
    ELSE Leaves(IF self.input = <<>> THEN <<>>
              ELSE SubSeq(self.input, 1, Len(self.input) - 1),
              self.cursor, self.history_position)

\* repl.rs 186-197: Key::Char(c), c not a newline
key_char(self, c) ==
    IF self.cursor # None
    THEN (IF self.cursor.value > Len(self.input) THEN Panicked(self)
          ELSE Leaves(string_insert(self.input, self.cursor.value, c),
                    Some(self.cursor.value + 1), self.history_position))
    ELSE Leaves(Append(self.input, c), self.cursor, self.history_position)

\* repl.rs 199-211: Key::Ctrl('c')
key_ctrl_c(self) ==
    IF self.input = <<>> THEN Exited(self)
    ELSE Leaves(<<>>, None, self.history_position)

\* on_keypress with a key other than Enter: the handler's assignments
Pressed(after) ==
    /\ input' = after.input
    /\ cursor' = after.cursor
    /\ history_position' = after.history_position
    /\ entered' = [OtherKey EXCEPT !.ended = after.ended]
    /\ UNCHANGED <<continued_lines, input_history>>
    /\ UNCHANGED <<parser_vars, fmt_vars, koto_vars, help_vars>>

\* the characters the user types one at a time
TypedChars == {"x"}

KeyUp == Alive /\ Pressed(key_up(Self))
KeyDown == Alive /\ Pressed(key_down(Self))
KeyLeft == Alive /\ Pressed(key_left(Self))
KeyRight == Alive /\ Pressed(key_right(Self))
KeyBackspace == Alive /\ Pressed(key_backspace(Self))
KeyChar(c) == Alive /\ Len(input) < MaxEdit /\ Pressed(key_char(Self, c))
KeyCtrlC == Alive /\ Pressed(key_ctrl_c(Self))

\* every key of on_keypress, on short lines
EditNext ==
    \/ KeyUp
    \/ KeyDown
    \/ KeyLeft
    \/ KeyRight
    \/ KeyBackspace
    \/ \E c \in TypedChars : KeyChar(c)
    \/ KeyCtrlC
    \/ KeyEnter

(***************************************************************************)
(* The help of the REPL: help.rs                                           *)
(***************************************************************************)
\* an entry of Help.map: the name of a section and its text
HelpEntry(key, text) == [key |-> key, text |-> text]

\* IndexMap::keys: the keys in insertion order
map_keys(entries) == [i \in 1..Len(entries) |-> entries[i].key]

\* IndexMap::get
map_get(entries, key) ==
    LET at == {i \in 1..Len(entries) : entries[i].key = key}
    IN IF at = {} THEN None ELSE Some(entries[CHOOSE i \in at : TRUE].text)

\* str::contains (mutant): the text begins with the pattern
contains_at_start(text, pattern) == starts_with(text, pattern)

\* str::contains
contains(text, pattern) ==
    \E i \in 0..(Len(text) - Len(pattern)) :
        SubSeq(text, i + 1, i + Len(pattern)) = pattern

\* Iterator::filter on a sequence, for the keys containing the search
RECURSIVE matching(_, _)
matching(names, search) ==
    IF names = <<>> THEN <<>>
    ELSE (IF contains(Head(names), search) THEN <<Head(names)>> ELSE <<>>)
         \o matching(Tail(names), search)

\* help.rs 68: the keys that name a module
RECURSIVE modules(_)
modules(names) ==
    IF names = <<>> THEN <<>>
    ELSE (IF contains(Head(names), <<".">>) THEN <<>> ELSE <<Head(names)>>)
         \o modules(Tail(names))

\* help.rs 41
NotFoundStart == <<"H", "e", "l", "p", " ", "f", "o", "r", " ", "'">>
NotFoundEnd == <<"'", " ", "n", "o", "t", " ", "f", "o", "u", "n", "d", ".">>

\* help.rs 45
PossibleMatches ==
    <<"P", "o", "s", "s", "i", "b", "l", "e", " ", "m", "a", "t", "c", "h",
      "e", "s", ":", " ">>

\* help.rs 57-63, with an apostrophe where the text has a backquote (a
\* string of the module cannot hold one)
Usage ==
    <<"\n", "T", "o", " ", "g", "e", "t", " ", "h", "e", "l", "p", " ",
      "f", "o", "r", " ", "a", " ", "m", "o", "d", "u", "l", "e", ",", " ",
      "t", "y", "p", "e", " ", "'", "h", "e", "l", "p", " ", "<", "m", "o",
      "d", "u", "l", "e", ">", "'", " ", "(", "e", ".", "g", ".", " ", "'",
      "h", "e", "l", "p", " ", "m", "a", "p", "'", ")", ",", "\n", "o",
      "r", " ", "t", "o", " ", "f", "o", "r", " ", "a", "n", " ", "i", "t",
      "e", "m", " ", "i", "n", " ", "a", " ", "m", "o", "d", "u", "l", "e",
      ",", " ", "t", "y", "p", "e", " ", "'", "h", "e", "l", "p", " ", "<",
      "m", "o", "d", "u", "l", "e", ">", ".", "<", "i", "t", "e", "m", ">",
      "'", " ", "(", "e", ".", "g", ".", " ", "'", "h", "e", "l", "p", " ",
      "m", "a", "p", ".", "k", "e", "y", "s", "'", ")", ".", "\n", "\n",
      "H", "e", "l", "p", " ", "i", "s", " ", "a", "v", "a", "i", "l", "a",
      "b", "l", "e", " ", "f", "o", "r", " ", "t", "h", "e", " ", "f", "o",
      "l", "l", "o", "w", "i", "n", "g", " ", "m", "o", "d", "u", "l", "e",
      "s", ":", "\n", " ", " ">>

\* help.rs 43-50: the list of the keys that match
RECURSIVE list_matches(_)
list_matches(names) ==
    IF names = <<>> THEN <<>>
    ELSE <<NL, " ", " ">> \o Head(names) \o list_matches(Tail(names))

\* help.rs 28-79: Help::get_help
RECURSIVE get_help(_, _)
get_help(entries, search) ==
    IF search # None
    THEN LET trimmed == trim(search.value)
             found == map_get(entries, trimmed)
             matches == matching(map_keys(entries), trimmed)
         IN IF found # None THEN found.value
            ELSE IF matches = <<>> THEN NotFoundStart \o trimmed \o NotFoundEnd
            ELSE IF Len(matches) = 1 THEN get_help(entries, Some(matches[1]))
            ELSE PossibleMatches \o list_matches(matches)
    ELSE Usage \o join(modules(map_keys(entries)), <<",", " ">>)

\* the names of the sections of the reference: modules and their items
HelpKeys ==
    { <<"a">>, <<"b">>, <<"a", "b">>, <<"a", ".", "b">>, <<"b", ".", "a">> }

\* consume_help_section: the text of a section begins with its name,
\* underlined
HelpText(key) == key \o <<NL>> \o repeat("=", Len(key))

\* the characters of a search
SearchChars == {"a", "b", ".", " "}

\* the maps Help::new can build: no key twice
HelpMap(entries) ==
    \E n \in 0..MaxEntries :
        \E names \in [1..n -> HelpKeys] :
            /\ \A i, j \in 1..n : names[i] = names[j] => i = j
            /\ entries = [i \in 1..n |-> HelpEntry(names[i], HelpText(names[i]))]

Search(search) ==
    \/ search = None
    \/ \E n \in 0..MaxSearch :
           \E text \in [1..n -> SearchChars] : search = Some(text)

HelpInit ==
    /\ HelpMap(help_map)
    /\ Search(help_search)
    /\ help_out = NotCalled

HelpIdle == help_map = <<>> /\ help_search = None /\ help_out = NotCalled

\* Help::get_help called on the map with the search
GetHelp ==
    /\ help_out = NotCalled
    /\ help_out' = Text(get_help(help_map, help_search))
    /\ UNCHANGED <<help_map, help_search>>
    /\ UNCHANGED <<parser_vars, fmt_vars, koto_vars, repl_vars>>

(***************************************************************************)
(* The specifications                                                      *)
(***************************************************************************)
vars == <<parser_vars, fmt_vars, koto_vars, repl_vars, help_vars>>

ParserIdle == pest_result = Err("syntax") /\ parse_result = NoResult

FormatIdle ==
    /\ fmt_script = <<>> /\ fmt_message = <<"e">>
    /\ fmt_start = DefaultPosition /\ fmt_end = DefaultPosition
    /\ fmt_checked = FALSE /\ fmt_out = NotCalled

KotoIdle == KotoInit /\ overflow_checks = FALSE

\* the parser alone
ParserNext == ParserParse
ParserSpecInit == ParserInit /\ FormatIdle /\ KotoIdle /\ ReplIdle /\ HelpIdle
ParserSpec == ParserSpecInit /\ [][ParserNext]_vars

\* format_runtime_error alone
FormatNext == Format
FormatSpecInit == FormatInit /\ ParserIdle /\ KotoIdle /\ ReplIdle /\ HelpIdle
FormatSpec == FormatSpecInit /\ [][FormatNext]_vars

\* a Koto instance and its host
Init == KotoInit /\ ParserIdle /\ FormatIdle /\ ReplIdle /\ HelpIdle
Spec == Init /\ [][Next]_vars

\* a Koto instance whose host sets the arguments and the script path, over
\* every kind of path
EnvInit == KotoInit /\ ParserIdle /\ FormatIdle /\ ReplIdle /\ HelpIdle
EnvNext ==
    \/ \E args \in ArgLists : HostSetArgs(args)
    \/ \E path \in ScriptPaths : HostSetScriptPath(path)
EnvSpec == EnvInit /\ [][EnvNext]_vars

\* a Repl and the keys of its user
ReplSpecInit == ReplInit /\ ParserIdle /\ FormatIdle /\ KotoIdle /\ HelpIdle
ReplSpec == ReplSpecInit /\ [][ReplNext]_vars

\* a Repl and every key of its user, on short lines
EditSpecInit == ReplInit /\ ParserIdle /\ FormatIdle /\ KotoIdle /\ HelpIdle
EditSpec == EditSpecInit /\ [][EditNext]_vars

\* Help::get_help alone
HelpNext == GetHelp
HelpSpecInit == HelpInit /\ ParserIdle /\ FormatIdle /\ KotoIdle /\ ReplIdle
HelpSpec == HelpSpecInit /\ [][HelpNext]_vars

(***************************************************************************)
(* Claims about the parser, checked under ParserSpec                       *)
(***************************************************************************)
ParseDone == parse_result # NoResult

\* the program pair of a source text the grammar accepted
ProgramPair == pest_result.value[1]

\* the source text is one top-level expression of the given rule
IsInput(rule) ==
    /\ pest_result.tag = "Ok"
    /\ Len(ProgramPair.inner) = 1
    /\ ProgramPair.inner[1].rule = rule

\* the one top-level expression, as a pair and as the node built from it
ParsedExpr == ProgramPair.inner[1]
BuiltExpr == parse_result.value.node.nodes[1]

\* the five tiers, by operator of the tree
TierOf(op) ==
    CASE op \in {"And", "Or"} -> 1
      [] op \in {"Equal", "NotEqual"} -> 2
      [] op \in {"Less", "LessOrEqual", "Greater", "GreaterOrEqual"} -> 3
      [] op \in {"Add", "Subtract"} -> 4
      [] op \in {"Multiply", "Divide", "Modulo"} -> 5

IsOp(n) == n.node.tag = "Op"

\* a left operand that is an operation is of the same or a higher tier, a
\* right operand that is an operation is of a strictly higher tier
RECURSIVE WellGrouped(_)
WellGrouped(n) ==
    IsOp(n) =>
        /\ IsOp(n.node.lhs) => TierOf(n.node.lhs.node.op) >= TierOf(n.node.op)
        /\ IsOp(n.node.rhs) => TierOf(n.node.rhs.node.op) > TierOf(n.node.op)
        /\ WellGrouped(n.node.lhs)
        /\ WellGrouped(n.node.rhs)

\* the operands and operators of a tree, read from left to right
RECURSIVE InOrder(_)
InOrder(n) ==
    IF IsOp(n)
    THEN InOrder(n.node.lhs) \o <<[what |-> n.node.op, value |-> 0]>>
             \o InOrder(n.node.rhs)
    ELSE <<[what |-> n.node.tag, value |-> n.node.value]>>

\* the operands and operators of an operation pair, in source order
TokensOf(operation) ==
    [i \in 1..Len(operation.inner) |->
        IF i % 2 = 1
        THEN [what |-> "Number", value |-> parse_number(operation.inner[i].str)]
        ELSE [what |-> AstOpOf(operation.inner[i].rule), value |-> 0]]

OperatorsOf(operation) ==
    [i \in 1..(Len(operation.inner) \div 2) |-> operation.inner[2 * i].rule]

\* C1: the tree built for an operation keeps the operands and operators in
\* source order and groups them by the five tiers, every operator to the left:
\* an operator that is a right operand binds strictly tighter than its parent,
\* one that is a left operand at least as tight; 1 + 2 * 3 is 1 + (2 * 3) and
\* 1 - 2 - 3 is (1 - 2) - 3.
C1_PrecedenceTiersLeftAssociative ==
    (ParseDone /\ IsInput("operation")) =>
        /\ parse_result.tag = "Ok"
        /\ InOrder(BuiltExpr) = TokensOf(ParsedExpr)
        /\ WellGrouped(BuiltExpr)
        /\ OperatorsOf(ParsedExpr) = <<"add", "multiply">> =>
               /\ BuiltExpr.node.op = "Add"
               /\ BuiltExpr.node.lhs.node.tag = "Number"
               /\ BuiltExpr.node.rhs.node.op = "Multiply"
        /\ OperatorsOf(ParsedExpr) = <<"subtract", "subtract">> =>
               /\ BuiltExpr.node.op = "Subtract"
               /\ BuiltExpr.node.lhs.node.op = "Subtract"
               /\ BuiltExpr.node.rhs.node.tag = "Number"

\* 1 + 2 * 3 - 4 has been parsed to (1 + (2 * 3)) - 4
C1_Witness ==
    /\ ParseDone /\ IsInput("operation")
    /\ OperatorsOf(ParsedExpr) = <<"add", "multiply", "subtract">>
    /\ BuiltExpr.node.op = "Subtract"
    /\ BuiltExpr.node.lhs.node.op = "Add"
    /\ BuiltExpr.node.lhs.node.rhs.node.op = "Multiply"

\* the arithmetic operator a compound assignment operator stands for
CompoundOp(rule) ==
    CASE rule = "assign_add" -> [ast |-> "Add", rule |-> "add"]
      [] rule = "assign_subtract" -> [ast |-> "Subtract", rule |-> "subtract"]
      [] rule = "assign_multiply" -> [ast |-> "Multiply", rule |-> "multiply"]
      [] rule = "assign_divide" -> [ast |-> "Divide", rule |-> "divide"]
      [] rule = "assign_modulo" -> [ast |-> "Modulo", rule |-> "modulo"]

\* the pair of a target where it is read: the id itself, or the lookup
TargetAsOperand(target_pair) ==
    IF target_pair.rule = "assignment_id"
    THEN target_pair.inner[Len(target_pair.inner)]
    ELSE target_pair

\* the pairs of `target = target op (rhs)` for the pairs of `target op= rhs`
Lowered(assignment) ==
    LET op == CompoundOp(assignment.inner[2].rule).rule
    IN PairAt("single_assignment",
              <<assignment.inner[1],
                Tok("assign", AssignText("assign"), 1, 10),
                PairAt("operation",
                       <<TargetAsOperand(assignment.inner[1]),
                         Tok(op, OperatorText(op), 1, 11),
                         assignment.inner[3]>>,
                       assignment.span)>>,
              assignment.span)

\* C2: `x op= e` is built as Assign{x, Op{op, x, e}} with op the arithmetic
\* operator of op=, x read as the node form of the target and e the parsed
\* right-hand side, which is the assignment built for `x = x op e`; a plain
\* `x = e` is built as Assign{x, e}.
C2_CompoundAssignmentLowering ==
    (ParseDone /\ IsInput("single_assignment")) =>
        LET operator == ParsedExpr.inner[2].rule
            rhs == build_ast(ParsedExpr.inner[3])
            assign == BuiltExpr.node
        IN /\ assign.tag = "Assign"
           /\ operator = "assign" => assign.expression = rhs
           /\ operator # "assign" =>
                 LET plain == build_ast(Lowered(ParsedExpr)).node
                 IN /\ assign.expression.node.tag = "Op"
                    /\ assign.expression.node.op = CompoundOp(operator).ast
                    /\ assign.expression.node.lhs.node = to_node(assign.target)
                    /\ assign.expression.node.rhs = rhs
                    /\ plain.target = assign.target
                    /\ plain.expression.node.op = assign.expression.node.op
                    /\ plain.expression.node.lhs.node = assign.expression.node.lhs.node
                    /\ plain.expression.node.rhs = assign.expression.node.rhs

\* `global x %= 1 + 2` has been parsed to global x = x % (1 + 2)
C2_Witness ==
    /\ ParseDone /\ IsInput("single_assignment")
    /\ ParsedExpr.inner[2].rule = "assign_modulo"
    /\ ParsedExpr.inner[3].rule = "operation"
    /\ BuiltExpr.node.target.tag = "Id"
    /\ BuiltExpr.node.target.scope = "Global"
    /\ BuiltExpr.node.expression.node.op = "Modulo"
    /\ BuiltExpr.node.expression.node.rhs.node.op = "Add"

Before(p, q) == p.line < q.line \/ (p.line = q.line /\ p.column < q.column)

\* C4: parse either fails with the grammar's error, without an AST, or
\* succeeds with one Block root that holds the node of every top-level
\* expression, in source order.
C4_ParseErrorOrBlock ==
    ParseDone =>
        /\ parse_result.tag \in {"Ok", "Err"}
        /\ pest_result.tag = "Err" =>
               /\ parse_result = Err(pest_result.error)
               /\ DOMAIN parse_result = {"tag", "error"}
        /\ pest_result.tag = "Ok" =>
               /\ parse_result.tag = "Ok"
               /\ DOMAIN parse_result = {"tag", "value"}
               /\ parse_result.value.node.tag = "Block"
               /\ LET nodes == parse_result.value.node.nodes
                      pairs == ProgramPair.inner
                  IN /\ Len(nodes) = Len(pairs)
                     /\ \A i \in 1..Len(pairs) : nodes[i] = build_ast(pairs[i])
                     /\ \A i, j \in 1..Len(nodes) :
                            i < j => Before(nodes[i].start_pos, nodes[j].start_pos)

\* a program of several top-level expressions has been parsed
C4_Witness ==
    /\ ParseDone
    /\ pest_result.tag = "Ok"
    /\ Len(ProgramPair.inner) >= 2
    /\ Len(parse_result.value.node.nodes) >= 2

\* the else-if branches an If node holds, in order
ElseIfsOf(if_node) ==
    IF if_node.else_if_condition = None THEN <<>>
    ELSE <<[condition |-> if_node.else_if_condition.value,
            body |-> if_node.else_if_node.value]>>

\* C9: the If node built for an if block keeps every else-if condition with
\* its body, in order, keeps the body of the else as the else branch (none
\* when there is no else), and never holds an else-if condition as the else
\* branch.
C9_ElseIfChainKept ==
    (ParseDone /\ IsInput("if_block")) =>
        LET else_ifs == SelectSeq(ParsedExpr.inner, LAMBDA p : p.rule = "else_if_block")
            elses == SelectSeq(ParsedExpr.inner, LAMBDA p : p.rule = "else_block")
            if_node == BuiltExpr.node
        IN /\ if_node.tag = "If"
           /\ if_node.condition = build_ast(ParsedExpr.inner[2])
           /\ if_node.then_node = build_ast(ParsedExpr.inner[3])
           /\ ElseIfsOf(if_node) =
                 [i \in 1..Len(else_ifs) |->
                     [condition |-> build_ast(else_ifs[i].inner[2]),
                      body |-> build_ast(else_ifs[i].inner[3])]]
           /\ if_node.else_node =
                 (IF elses = <<>> THEN None ELSE Some(build_ast(elses[1].inner[2])))
           /\ \A i \in 1..Len(else_ifs) :
                 if_node.else_node # Some(build_ast(else_ifs[i].inner[2]))

HasGlobalKeyword(target_pair) ==
    \E i \in 1..Len(target_pair.inner) : target_pair.inner[i].rule = "global_keyword"

\* the target built for a target pair is the one the pair alone describes
TargetMatches(target, target_pair) ==
    IF target_pair.rule = "assignment_id"
    THEN /\ target.tag = "Id"
         /\ target.id = target_pair.inner[Len(target_pair.inner)].str
         /\ target.scope = (IF HasGlobalKeyword(target_pair) THEN "Global" ELSE "Local")
    ELSE target.tag = "Lookup"

\* C10: an identifier target is Global exactly when the global keyword
\* precedes it and Local otherwise, in a single assignment and at every
\* position of a multiple assignment, each target on its own; the targets and
\* the right-hand expressions keep their source order.
C10_TargetScopes ==
    /\ (ParseDone /\ IsInput("single_assignment")) =>
           TargetMatches(BuiltExpr.node.target, ParsedExpr.inner[1])
    /\ (ParseDone /\ IsInput("multiple_assignment")) =>
           LET target_pairs == ParsedExpr.inner[1].inner
               expression_pairs == ParsedExpr.inner[2].inner
               multi == BuiltExpr.node
           IN /\ multi.tag = "MultiAssign"
              /\ Len(multi.targets) = Len(target_pairs)
              /\ \A i \in 1..Len(target_pairs) :
                     TargetMatches(multi.targets[i], target_pairs[i])
              /\ multi.expressions = build_all(expression_pairs)
              /\ \A i \in 1..Len(expression_pairs) :
                     multi.expressions[i].node.value = i

\* `a, global b = 1, 2` has been parsed
C10_Witness ==
    /\ ParseDone /\ IsInput("multiple_assignment")
    /\ Len(BuiltExpr.node.targets) = 2
    /\ BuiltExpr.node.targets[1].tag = "Id"
    /\ BuiltExpr.node.targets[1].scope = "Local"
    /\ BuiltExpr.node.targets[2].tag = "Id"
    /\ BuiltExpr.node.targets[2].scope = "Global"

(***************************************************************************)
(* Claims about run_script_with_args, run and call_function, checked       *)
(* under Spec                                                              *)
(***************************************************************************)
IsPrefix(a, b) == Len(a) <= Len(b) /\ a = SubSeq(b, 1, Len(a))

RswaSteps == <<"parse", "set_args", "run", "has_function", "call_function">>

\* C3: run_script_with_args goes through parse, set_args, run and the call
\* of main in this order. When parse fails it returns the parse error, leaves
\* env as it was and evaluates nothing; when run fails it returns that error
\* and main is not called; otherwise it calls main once when main is a user
\* function and returns the result of that call, and returns Empty when main
\* is absent or something else.
C3_RunScriptWithArgsOrder ==
    trace.api = "run_script_with_args" =>
        /\ IsPrefix(trace.log, RswaSteps)
        /\ pc = "idle" =>
              CASE trace.parse_result.tag = "Err" ->
                      /\ trace.log = <<"parse">>
                      /\ result = trace.parse_result
                      /\ env = trace.env_before
                      /\ trace.evaluations = 0
                [] trace.run_result.tag = "Err" ->
                      /\ trace.log = SubSeq(RswaSteps, 1, 3)
                      /\ result = trace.run_result
                      /\ trace.evaluations = 1
                [] trace.main_at_check.tag = "Function" ->
                      /\ trace.log = RswaSteps
                      /\ result = trace.call_result
                      /\ result.tag = "Ok" => result.value \in CallValues
                      /\ trace.evaluations = 2
                [] OTHER ->
                      /\ trace.log = SubSeq(RswaSteps, 1, 4)
                      /\ result = Ok(Empty)
                      /\ trace.evaluations = 1

\* run_script_with_args has run the script, called main and returned the
\* value of main
C3_Witness ==
    /\ pc = "idle"
    /\ trace.api = "run_script_with_args"
    /\ trace.log = RswaSteps
    /\ trace.run_result.tag = "Ok"
    /\ result = Ok(Number(2))

C8_FramesReleased ==
    /\ Len(call_stack) = activations
    /\ pc = "idle" => call_stack = <<>>

\* call_function has returned an error that passed through nested
\* invocations
C8_Witness ==
    /\ pc = "idle"
    /\ trace.api = "call_function"
    /\ trace.deepest >= 2
    /\ result.tag = "Err"
    /\ call_stack = <<>>

(***************************************************************************)
(* Claims about format_runtime_error, checked under FormatSpec             *)
(***************************************************************************)
\* a text cut at every "\n": a text of n line ends has n + 1 pieces
RECURSIVE PiecesFrom(_, _, _)
PiecesFrom(t, i, cur) ==
    IF i > Len(t) THEN <<cur>>
    ELSE IF t[i] = NL THEN <<cur>> \o PiecesFrom(t, i + 1, <<>>)
    ELSE PiecesFrom(t, i + 1, Append(cur, t[i]))

Pieces(t) == PiecesFrom(t, 1, <<>>)

Formatted == fmt_out # NotCalled

\* the span is within one line the script has
FmtSingleLine ==
    /\ fmt_start.line = fmt_end.line
    /\ fmt_start.line >= 1
    /\ fmt_start.line <= Len(lines(fmt_script))

\* the span ends on a later line than it starts, and the script has them all
FmtMultiLine ==
    /\ fmt_start.line >= 1
    /\ fmt_start.line < fmt_end.line
    /\ fmt_end.line <= Len(lines(fmt_script))

Arrow == <<" ", "-", "-", ">", " ">>

\* C5: a runtime error within one source line is rendered on five lines: the
\* header with the message, the location line, the empty gutter, the
\* numbered source line and the caret line, which holds end.col - start.col
\* carets in a row, the first under the source character at column
\* start.col, and besides them only the gutter bar and spaces.
C5_SingleLineRendering ==
    (Formatted /\ FmtSingleLine) =>
        /\ fmt_out.tag = "Text"
        /\ LET out == Pieces(fmt_out.text)
               number == to_string(fmt_start.line)
               source_line == lines(fmt_script)[fmt_start.line]
               bar == Len(number) + 3
               count == fmt_end.column - fmt_start.column
               first == Len(number) + 4 + fmt_start.column
           IN /\ Len(out) = 5
              /\ out[1] = RuntimeErrorHeader \o fmt_message
              /\ out[2] = Arrow \o number \o <<":">> \o to_string(fmt_start.column)
              /\ out[3] = repeat(" ", bar - 1) \o <<"|">>
              /\ out[4] = <<" ">> \o number \o <<" ", "|", " ">> \o source_line
              /\ count >= 0
              /\ {i \in 1..Len(out[5]) : out[5][i] = "^"} = first..(first + count - 1)
              /\ \A i \in 1..Len(out[5]) :
                    out[5][i] = (IF i = bar THEN "|"
                                 ELSE IF i >= first THEN "^" ELSE " ")

\* an error on columns 1 to 3 of line 10 has been rendered
C5_Witness ==
    /\ Formatted /\ FmtSingleLine
    /\ fmt_script = LongScript
    /\ fmt_start = Position(10, 1)
    /\ fmt_end = Position(10, 3)
    /\ fmt_out.tag = "Text"

\* C6: a runtime error over several source lines is rendered as the header,
\* the location line and the empty gutter, followed by one line per covered
\* source line holding its right-aligned number, the bar and its text, in
\* order, and by no caret line.
C6_MultiLineRendering ==
    (Formatted /\ FmtMultiLine) =>
        /\ fmt_out.tag = "Text"
        /\ LET out == Pieces(fmt_out.text)
               covered == fmt_end.line - fmt_start.line + 1
               width == Len(to_string(fmt_end.line))
           IN /\ Len(out) = 3 + covered
              /\ \A i \in 1..covered :
                    out[3 + i] =
                        <<" ">> \o pad_left(to_string(fmt_start.line + i - 1), width)
                            \o <<" ", "|", " ">>
                            \o lines(fmt_script)[fmt_start.line + i - 1]
              /\ \A i \in 1..Len(fmt_out.text) : fmt_out.text[i] # "^"

(***************************************************************************)
(* Further claims about the parser, checked under ParserSpec               *)
(***************************************************************************)
RangeOpAt(range_pair) == IF range_pair.inner[1].rule = "range_op" THEN 1 ELSE 2

HasStart(range_pair) == RangeOpAt(range_pair) = 2

HasEnd(range_pair) == Len(range_pair.inner) > RangeOpAt(range_pair)

\* the bound of a pair as the Option the node holds
BoundOf(present, bound_pair_at, range_pair) ==
    IF present THEN Some(build_ast(range_pair.inner[bound_pair_at])) ELSE None

\* C11: a range with both bounds is built as a Range node holding them; a
\* range with the start, the end or both left out is built as an IndexRange
\* node holding the bound that is present and None for one that is not; in
\* both, inclusive is true exactly when the operator is `..=`.
C11_RangeOrIndexRange ==
    (ParseDone /\ IsInput("range")) =>
        /\ parse_result.tag = "Ok"
        /\ LET op_at == RangeOpAt(ParsedExpr)
               start == BoundOf(HasStart(ParsedExpr), 1, ParsedExpr)
               end == BoundOf(HasEnd(ParsedExpr), op_at + 1, ParsedExpr)
               built == BuiltExpr.node
           IN /\ built.tag = (IF HasStart(ParsedExpr) /\ HasEnd(ParsedExpr)
                              THEN "Range" ELSE "IndexRange")
              /\ built.tag = "Range" =>
                    built.start = start.value /\ built.end = end.value
              /\ built.tag = "IndexRange" =>
                    built.start = start /\ built.end = end
              /\ built.inclusive <=> ParsedExpr.inner[op_at].str = <<".", ".", "=">>
              /\ ParsedExpr.inner[op_at].str \in RangeOps

\* 1..=2 has been parsed to an inclusive Range, and so has ..=2 to an
\* inclusive IndexRange: here the former
C11_Witness ==
    /\ ParseDone /\ IsInput("range")
    /\ BuiltExpr.node.tag = "Range"
    /\ BuiltExpr.node.inclusive
    /\ BuiltExpr.node.start.node.tag = "Number"
    /\ BuiltExpr.node.end.node.tag = "Number"

IsDebugInput ==
    /\ pest_result.tag = "Ok"
    /\ Len(ProgramPair.inner) = 1
    /\ ProgramPair.inner[1].rule \in {"debug_with_parens", "debug_no_parens"}

\* the characters of a line from the column a span starts at up to the one
\* before the column it ends at
SliceOf(line_text, span) ==
    SubSeq(line_text, span.start.column, span.end.column - 1)

\* C12: the Debug node built for `debug e1, e2, ...`, with or without
\* parentheses, holds one (text, node) pair per sub-expression, in source
\* order: the text is the slice of the source the sub-expression spans, blanks
\* as written, and the node is the AST of that sub-expression.
C12_DebugKeepsSourceSlices ==
    (ParseDone /\ IsDebugInput) =>
        /\ parse_result.tag = "Ok"
        /\ BuiltExpr.node.tag = "Debug"
        /\ LET written == ParsedExpr.inner[2].inner
               kept == BuiltExpr.node.expressions
           IN /\ Len(kept) = Len(written)
              /\ \A i \in 1..Len(written) :
                    /\ kept[i].text = SliceOf(ParsedExpr.str, written[i].span)
                    /\ kept[i].node = build_ast(written[i])

\* `debug y, 1 +   2` has been parsed: the second text keeps its three blanks
C12_Witness ==
    /\ ParseDone /\ IsDebugInput
    /\ ParsedExpr.rule = "debug_no_parens"
    /\ Len(BuiltExpr.node.expressions) = 2
    /\ BuiltExpr.node.expressions[1].text = <<"y">>
    /\ BuiltExpr.node.expressions[2].text = <<"1", " ", "+", " ", " ", " ", "2">>
    /\ BuiltExpr.node.expressions[2].node.node.tag = "Op"

\* C14: the argument names of the Function node built for a function literal
\* are pairwise distinct.
C14_FunctionArgsDistinct ==
    (ParseDone /\ IsInput("function_inline")) =>
        /\ parse_result.tag = "Ok"
        /\ BuiltExpr.node.tag = "Function"
        /\ \A i, j \in 1..Len(BuiltExpr.node.args) :
              i # j => BuiltExpr.node.args[i] # BuiltExpr.node.args[j]

(***************************************************************************)
(* Further claims about the host API, checked under Spec                   *)
(***************************************************************************)
\* run or call_function has matched a RuntimeError, which goes to
\* format_runtime_error
RuntimeErrorRendered ==
    trace.error # NoResult /\ trace.error.tag = "RuntimeError"

\* C13: every RuntimeError that reaches format_runtime_error, the one of a
\* failed call_function included, has a span with start line >= 1 and end
\* line >= start line, so that neither start.line - 1 nor
\* end.line - start.line goes below zero, the rendering does not panic and
\* shows at least one numbered source line.
C13_ErrorSpansLocateSource ==
    RuntimeErrorRendered =>
        /\ trace.error.start_pos.line >= 1
        /\ trace.error.end_pos.line >= trace.error.start_pos.line
        /\ result # Panic
        /\ result.tag = "Err"

StrList(args) == List([i \in 1..Len(args) |-> Str(args[i])])

KeysOf(map) == [i \in 1..Len(map) |-> map[i].key]

\* the entries of the map but the ones of the given keys
Without(map, keys) == SelectSeq(map, LAMBDA entry : entry.key \notin keys)

\* C15: once set_args(args) has returned, env.args is the list of one Str
\* per argument, in the order of args, whatever list was there before;
\* env.script_dir, env.script_path and the global main are as they were.
C15_SetArgsReplaces ==
    trace.api = "set_args" =>
        /\ get_value(env, "args") = StrList(trace.args)
        /\ Len(get_value(env, "args").items) = Len(trace.args)
        /\ Without(env, {"args"}) = Without(trace.env_before, {"args"})
        /\ global_main = trace.main_before

\* set_args(["a"]) has been called on an instance whose env.args held two
\* other arguments and whose main is bound
C15_Witness ==
    /\ trace.api = "set_args"
    /\ trace.args = <<<<"a">>>>
    /\ Len(get_value(trace.env_before, "args").items) = 2
    /\ get_value(env, "args") = List(<<Str(<<"a">>)>>)
    /\ global_main # Absent

\* the directory of each path, as Path::parent documents it: no parent for
\* the empty path and the root, the empty path for a lone file name
DirectoryOf(path) ==
    CASE path = <<>> -> Empty
      [] path = <<"/">> -> Empty
      [] path = <<"b">> -> Str(<<>>)
      [] path = <<"a", "/", "b">> -> Str(<<"a">>)
      [] path = <<"/", "b">> -> Str(<<"/">>)
      [] path = <<"a", "/", "b", "/">> -> Str(<<"a">>)

\* C16: once set_script_path(None) has returned, env.script_dir and
\* env.script_path are Empty; once set_script_path(Some(p)) has, script_path
\* is Str(p) and script_dir is Str(parent of p), or Empty when p has no
\* parent, whatever an earlier call had set; env.args is as it was.
C16_SetScriptPath ==
    trace.api = "set_script_path" =>
        /\ trace.path = None =>
              /\ get_value(env, "script_dir") = Empty
              /\ get_value(env, "script_path") = Empty
        /\ trace.path # None =>
              /\ get_value(env, "script_path") = Str(trace.path.value)
              /\ get_value(env, "script_dir") = DirectoryOf(trace.path.value)
        /\ get_value(env, "args") = get_value(trace.env_before, "args")

\* set_script_path(Some("a/b")) has been called after the path had been
\* "/b" and arguments had been set
C16_Witness ==
    /\ trace.api = "set_script_path"
    /\ trace.path = Some(<<"a", "/", "b">>)
    /\ get_value(trace.env_before, "script_path") = Str(<<"/", "b">>)
    /\ get_value(env, "script_dir") = Str(<<"a">>)
    /\ get_value(env, "args") # List(<<>>)

EnvKeys == <<"script_dir", "script_path", "args">>

\* C17: the env map of a new instance holds script_dir, script_path and args,
\* in this order, with Empty, Empty and the empty list; after any calls of
\* set_args and set_script_path, and whatever is run in between, it holds the
\* same keys in the same order, each once.
C17_EnvKeysKept ==
    /\ KeysOf(env) = EnvKeys
    /\ KeysOf(NewEnv) = EnvKeys
    /\ trace.api = "none" =>
          env = <<[key |-> "script_dir", value |-> Empty],
                  [key |-> "script_path", value |-> Empty],
                  [key |-> "args", value |-> List(<<>>)]>>

\* both set_args and set_script_path have changed the values of env
C17_Witness ==
    /\ get_value(env, "script_path") = Str(<<"a", "/", "b">>)
    /\ get_value(env, "args") = List(<<Str(<<"b">>), Str(<<"c">>)>>)
    /\ trace.api = "set_script_path"
    /\ get_value(trace.env_before, "script_path") = Empty

(***************************************************************************)
(* Claims about the REPL, checked under ReplSpec                           *)
(***************************************************************************)
\* the last key was Enter
Entered == entered.key = "enter"

\* Enter was pressed with no continuation pending and the compiler refused
\* the text
RefusedAtPrompt ==
    Entered /\ entered.pending = <<>> /\ entered.compile_answer.tag = "Err"

\* the number of whitespace characters a line begins with
Indentation(line) ==
    CHOOSE n \in 0..Len(line) :
        /\ \A i \in 1..n : is_whitespace(line[i])
        /\ n < Len(line) => ~is_whitespace(line[n + 1])

\* C18: when Enter is pressed with no continuation pending and the compiler
\* refuses the input, nothing is run; if the error is an indentation error
\* nothing is printed, the line becomes the only element of continued_lines
\* and the next input is the line's indentation plus INDENT_SIZE blanks; for
\* any other error the error is printed and continued_lines is empty
C18_CompileErrorAtPrompt ==
    RefusedAtPrompt =>
        /\ entered.ran = <<>>
        /\ IF is_indentation_error(entered.compile_answer.error)
           THEN /\ entered.printed = <<>>
                /\ continued_lines = <<entered.line>>
                /\ input = repeat(" ", Indentation(entered.line) + INDENT_SIZE)
           ELSE /\ entered.printed = <<PrintedError(entered.compile_answer.error)>>
                /\ continued_lines = <<>>

\* an indented line opened a continuation
C18_Witness ==
    /\ RefusedAtPrompt
    /\ is_indentation_error(entered.compile_answer.error)
    /\ Indentation(entered.line) > 0
    /\ input = repeat(" ", Indentation(entered.line) + INDENT_SIZE)

\* Enter was pressed with no continuation pending
EnteredAtPrompt == Entered /\ entered.pending = <<>>

\* the line is the word `help`, alone or followed by whitespace
AsksForHelp(line) ==
    LET asked == trim(line)
    IN \/ asked = HelpWord
       \/ /\ starts_with(asked, HelpWord)
          /\ Len(asked) > Len(HelpWord)
          /\ is_whitespace(asked[Len(HelpWord) + 1])

\* what follows `help` and a whitespace character, if anything does
SearchTerm(line) ==
    LET asked == trim(line)
    IN IF asked = HelpWord THEN None
       ELSE Some(SubSeq(asked, Len(HelpWord) + 2, Len(asked)))

HelpPrinted == \E i \in 1..Len(entered.printed) : entered.printed[i].what = "help"

\* C19: at the prompt `help` is answered with the general help text and
\* `help <term>` with the help found for the term, whatever the compiler and
\* the evaluator make of the line, and a line that is not the word `help`,
\* alone or followed by whitespace, is never answered with help text
C19_HelpAnswered ==
    EnteredAtPrompt =>
        IF AsksForHelp(entered.line)
        THEN entered.printed = <<PrintedHelp(SearchTerm(entered.line))>>
        ELSE ~HelpPrinted

\* Enter was pressed with a continuation pending
EnteredWhilePending == Entered /\ entered.pending # <<>>

\* C20: with a continuation pending, Enter on a line holding a character
\* that is not whitespace appends the line to continued_lines and runs
\* nothing; Enter on a line of whitespace compiles the pending lines joined
\* by newlines, without that line, runs the chunk at most once and only if
\* the compiler accepted the text, and leaves continued_lines empty whatever
\* the compiler and the evaluator answered
C20_ContinuationEntered ==
    EnteredWhilePending =>
        IF all_whitespace(entered.line)
        THEN /\ entered.compiled = <<join(entered.pending, <<NL>>)>>
             /\ Len(entered.ran) <= 1
             /\ entered.ran # <<>> => entered.compile_answer.tag = "Ok"
             /\ continued_lines = <<>>
        ELSE /\ continued_lines = Append(entered.pending, entered.line)
             /\ entered.ran = <<>>

\* a continuation of two lines was closed by a line of blanks, and the
\* compiler refused the text as an incomplete block
C20_Witness ==
    /\ EnteredWhilePending
    /\ Len(entered.pending) = 2
    /\ entered.line # <<>> /\ all_whitespace(entered.line)
    /\ entered.compile_answer = Err(IndentationError)
    /\ continued_lines = <<>>

(***************************************************************************)
(* Claims about Help::get_help, checked under HelpSpec                     *)
(***************************************************************************)
\* get_help was called with a search
Searched == help_out # NotCalled /\ help_search # None

\* the search without the whitespace around it
Sought == trim(help_search.value)

\* the key has the text among its substrings
HasSubstring(key, text) ==
    \E i \in 1..(Len(key) + 1), j \in 0..Len(key) : SubSeq(key, i, j) = text

\* the keys of the map that have the search among their substrings, in the
\* order of insertion
Candidates ==
    SelectSeq([i \in 1..Len(help_map) |-> help_map[i].key],
              LAMBDA key : HasSubstring(key, Sought))

\* the stored text of a key of the map
StoredText(key) ==
    help_map[CHOOSE i \in 1..Len(help_map) : help_map[i].key = key].text

\* "Possible matches: " and then each key on a line of its own, after two
\* blanks
Listing(names) ==
    PossibleMatches \o concat([i \in 1..Len(names) |-> <<NL, " ", " ">> \o names[i]])

\* C21: get_help(Some(s)), with s trimmed, returns the stored text of the
\* entry whose key is s if there is one; otherwise the not-found message if
\* no key contains s, the stored text of the only key containing s if
\* there is one, and the list of the keys containing s in insertion order if
\* there are several; the text of an entry whose key does not contain s is
\* never returned
C21_GetHelpSearch ==
    Searched =>
        /\ help_out =
             Text(IF \E i \in 1..Len(help_map) : help_map[i].key = Sought
                  THEN StoredText(Sought)
                  ELSE IF Candidates = <<>>
                  THEN NotFoundStart \o Sought \o NotFoundEnd
                  ELSE IF Len(Candidates) = 1 THEN StoredText(Candidates[1])
                  ELSE Listing(Candidates))
        /\ \A i \in 1..Len(help_map) :
               help_out = Text(help_map[i].text)
                   => HasSubstring(help_map[i].key, Sought)

\* a search that is no key and that several keys contain was answered with
\* the list of those keys
C21_Witness ==
    /\ Searched
    /\ Sought # <<>>
    /\ Len(help_map) > Len(Candidates)
    /\ Len(Candidates) > 1
    /\ \A i \in 1..Len(help_map) : help_map[i].key # Sought
    /\ help_out = Text(Listing(Candidates))

(***************************************************************************)
(* Claims about the keys of the REPL, checked under EditSpec               *)
(***************************************************************************)
\* C22: whatever keys are pressed, a cursor Some(p) has p below the length
\* of the input and no key handler works on an index outside the input or
\* on a position below zero (it would panic); Backspace with the cursor at
\* position 0 leaves the input and the cursor as they are
C22_CursorInBounds ==
    /\ cursor # None => cursor.value < Len(input)
    /\ entered.ended # "panic"

\* history_position is None or an index of input_history
HistoryPositionInRange ==
    history_position # None => history_position.value < Len(input_history)

\* the entry of the history at an index counted from 0
HistoryAt(i) == input_history[i + 1]

\* what Up, Down and Enter do to history_position, input and cursor
HistoryStep ==
    /\ KeyUp =>
          /\ entered'.ended = "no"
          /\ IF input_history = <<>>
             THEN UNCHANGED <<input, cursor, history_position>>
             ELSE /\ history_position' =
                       Some(IF history_position = None
                            THEN Len(input_history) - 1
                            ELSE IF history_position.value > 0
                            THEN history_position.value - 1
                            ELSE 0)
                  /\ input' = HistoryAt(history_position'.value)
                  /\ cursor' = None
    /\ KeyDown =>
          /\ entered'.ended = "no"
          /\ history_position' =
                IF history_position # None
                   /\ history_position.value + 1 < Len(input_history)
                THEN Some(history_position.value + 1)
                ELSE None
          /\ history_position' # None
                => input' = HistoryAt(history_position'.value) /\ cursor' = None
          /\ history_position # None /\ history_position' = None
                => input' = <<>>
    /\ KeyEnter => history_position' = None

\* C23: history_position is always None or an index below the length of
\* input_history; Up from None selects the newest entry, Up otherwise moves
\* one entry older and stays on the oldest; Down moves one entry newer and
\* from the newest returns to None with an empty input; on an empty history
\* Up and Down index nothing; after an Up or Down that leaves Some(i) the
\* input is input_history[i] and the cursor is None; Enter resets
\* history_position to None
C23_HistoryPosition == []HistoryPositionInRange /\ [][HistoryStep]_vars

\* Up was pressed until the oldest of two entries was selected
C23_Witness ==
    /\ Len(input_history) = 2
    /\ history_position = Some(0)
    /\ input = HistoryAt(0)
    /\ cursor = None
    /\ entered.key = "other"

\* no entry of the history is whitespace only and no two neighbours are equal
HistoryWellFormed ==
    /\ \A i \in 1..Len(input_history) : ~all_whitespace(input_history[i])
    /\ \A i \in 1..(Len(input_history) - 1) :
           input_history[i] # input_history[i + 1]

\* the history changes only by an Enter that appends the input, and Enter
\* appends exactly a line that holds a character other than whitespace and
\* is not the last entry
HistoryGrows ==
    /\ input_history' # input_history
          => KeyEnter /\ input_history' = Append(input_history, input)
    /\ KeyEnter =>
          (input_history' # input_history
             <=> /\ ~all_whitespace(input)
                 /\ (input_history = <<>>
                        \/ input_history[Len(input_history)] # input))

\* C24: input_history only grows, by at most one entry per Enter, appended
\* at the end; Enter appends the input exactly when it holds a character
\* that is not whitespace and differs from the last entry; so the history
\* never holds a whitespace-only entry or two equal neighbours, and no other
\* key changes it
C24_HistoryGrowth == []HistoryWellFormed /\ [][HistoryGrows]_vars

\* the last entry was entered again and the history kept its two entries
C24_Witness ==
    /\ Entered
    /\ Len(input_history) = 2
    /\ entered.line = input_history[2]
    /\ entered.pending # <<>>
    /\ input_history[1] # input_history[2]

(***************************************************************************)
(* Claims about Koto::parse and the stored script, checked under Spec      *)
(***************************************************************************)
\* the AST is the one KotoParser::parse builds from the text
BuiltFrom(source, tree) == KotoParser_parse(Grammar(source)) = Ok(tree)

\* the stored script is the text the stored AST was built from: none has
\* been parsed yet, or the pair comes from one successful parse
StoredTogether ==
    \/ script = <<>> /\ ast = DefaultAstNode
    \/ \E source \in Scripts : script = source /\ BuiltFrom(source, ast)

\* the text of the program a piece of code belongs to
SourceOf(code) ==
    IF \E source \in Scripts : BuiltFrom(source, code)
    THEN CHOOSE source \in Scripts : BuiltFrom(source, code)
    ELSE <<>>

\* C25: the stored script and the stored AST are replaced together by a
\* successful parse and kept together by a failed one, so the script is
\* always the text the AST was built from, and the excerpt of a runtime
\* error raised by run or call_function is taken from the text of the
\* program whose code was running
C25_ScriptOfProgramRun ==
    /\ StoredTogether
    /\ (RuntimeErrorRendered /\ trace.code # NoResult)
          => result = host_result(SourceOf(trace.code), Err(trace.error),
                                  overflow_checks)

=============================================================================
